---- MODULE Spec2Model ----
(***************************************************************************)
(* Tenant isolation of the restaurant backend: the gin middleware chain    *)
(* (RequireAuth, SetTenantContext, RequireKAMOrAdmin), the pooled          *)
(* PostgreSQL sessions the chain and the handlers share through one        *)
(* *gorm.DB, and the row level security policies the migrations install.   *)
(***************************************************************************)
EXTENDS Integers, FiniteSets, Sequences, TLC

(* ------------------------------ bounds -------------------------------- *)
MaxRestaurantID == 3     \* restaurants 1..MaxRestaurantID exist; 1 is the platform
NumConns == 2            \* physical connections held by the database/sql pool
NumRequests == 1         \* requests in flight at the same time
MaxUserID == 4           \* users rows get ids 1..MaxUserID
MaxReservationID == 2    \* reservations rows get ids 1..MaxReservationID
MaxTime == 2                \* reservations start and end at times 1..MaxTime
NumWorkers == 2             \* goroutines that serve calls at the same time
MaxSlot == 3                \* the availability check sees times 1..MaxSlot

(* ----------------------------- constants ------------------------------ *)
PlatformOrganizationID == 1

RestaurantIDs == 1..MaxRestaurantID
Conns == 1..NumConns
Requests == 1..NumRequests
Roles == {"Admin", "Staff", "KAM"}

\* "no value": a claim the token does not carry, a session variable that was
\* never SET (current_setting(name, true) yields NULL), a context key that
\* was never stored.
Unset == -1
NilRole == "nil"

(* ------------------------- row level security ------------------------- *)
\* Tables on which migration 006 enables row level security.
RLSTables ==
  {"users", "menu_categories", "menu_items", "menu_item_images",
   "reservations", "orders", "order_items"}

\* Variant of policies without the special handling of table users.
policiesTenantOnly == [t \in RLSTables |-> "tenant"]

\* The condition text migration 007 installs per table, by its shape:
\* "tenant"             restaurant_id = current_setting('app.current_restaurant', true)::INTEGER
\* "tenant_or_platform" the same OR (restaurant_id = 1 AND
\*                      current_setting('app.current_user_role', true) IN ('KAM','Admin'))
policies ==
  [t \in RLSTables |-> IF t = "users" THEN "tenant_or_platform" ELSE "tenant"]

\* CREATE POLICY isolate_<t> ON <t> FOR ALL TO restaurant_app_user
\*   USING (condition) WITH CHECK (condition)
CreatePolicy(t) ==
  [cmd |-> "ALL", to |-> "restaurant_app_user",
   using |-> policies[t], with_check |-> policies[t]]

\* The earlier migration runner (enableRLS, createRLSPolicies): its tables,
\* its conditions, and its statement
\* CREATE POLICY isolate_<t> ON <t> FOR ALL TO restaurant_app_user USING (condition)
\* which writes no WITH CHECK clause.
LegacyRLSTables ==
  {"users", "menus", "menu_items", "reservations", "orders", "order_items"}

legacyPolicies ==
  [t \in LegacyRLSTables |-> IF t = "users" THEN "tenant_or_platform" ELSE "tenant"]

createRLSPolicies(t) ==
  [cmd |-> "ALL", to |-> "restaurant_app_user",
   using |-> legacyPolicies[t], with_check |-> "absent"]

\* The condition new rows are checked against: a FOR ALL policy created
\* without WITH CHECK applies its USING condition to them.
WithCheckOf(p) == IF p.with_check = "absent" THEN p.using ELSE p.with_check

\* Variant of TenantMatch in which an unset variable matches every row.
TenantMatchNullEqual(rid, sess) ==
  sess.current_restaurant = Unset \/ rid = sess.current_restaurant

\* restaurant_id = current_setting('app.current_restaurant', true)::INTEGER
\* A NULL setting makes the comparison NULL, which a policy treats as false.
TenantMatch(rid, sess) ==
  sess.current_restaurant # Unset /\ rid = sess.current_restaurant

\* restaurant_id = 1 AND current_setting('app.current_user_role', true) IN ('KAM','Admin')
PlatformMatch(rid, sess) ==
  rid = PlatformOrganizationID /\ sess.current_user_role \in {"KAM", "Admin"}

Condition(kind, rid, sess) ==
  IF kind = "tenant_or_platform"
    THEN TenantMatch(rid, sess) \/ PlatformMatch(rid, sess)
    ELSE TenantMatch(rid, sess)

\* Row security applies to a statement only when the policy's role is the
\* session's current role. The login role created the tables in the
\* migrations and row security is ENABLEd, not FORCEd, so the login role
\* bypasses the policies until SET ROLE restaurant_app_user has run on the
\* session.
PolicyApplies(t, sess) ==
  t \in RLSTables /\ sess.db_role = CreatePolicy(t).to

UsingAllows(t, rid, sess) ==
  PolicyApplies(t, sess) => Condition(CreatePolicy(t).using, rid, sess)

CheckAllows(t, rid, sess) ==
  PolicyApplies(t, sess) => Condition(WithCheckOf(CreatePolicy(t)), rid, sess)

\* The rows of a table a statement on this session can see.
Visible(t, rows, sess) == {row \in rows : UsingAllows(t, row.restaurant_id, sess)}

(* ------------------------------- state -------------------------------- *)
VARIABLES
  conns,        \* session state of every pooled connection
  req,          \* the requests in flight
  menu_items,   \* rows of table menu_items
  db,           \* rows of tables restaurants and users
  proc          \* the server process: startup position and the call being served

vars == <<conns, req, menu_items, db, proc>>

\* A session as gorm.Open leaves it: login role, no custom setting.
FreshSession ==
  [db_role |-> "owner", current_restaurant |-> Unset, current_user_role |-> NilRole]

\* restaurants other than the platform organization
Tenants == RestaurantIDs \ {PlatformOrganizationID}

\* users rows: the bootstrap KAM under the platform organization and one user
\* per restaurant, Admin and Staff in turn.
users ==
  {[id |-> 1, restaurant_id |-> PlatformOrganizationID, role |-> "KAM"]}
  \cup {[id |-> i, restaurant_id |-> i, role |-> IF i % 2 = 0 THEN "Admin" ELSE "Staff"] :
          i \in Tenants}

\* menu_items rows as seeded: item i belongs to restaurant i + 1.
ItemIDs == 1..(MaxRestaurantID - 1)

NoQuery == [conn |-> 0, table |-> "", db_role |-> "", current_restaurant |-> Unset,
            current_user_role |-> NilRole]

NoContext == [exists |-> FALSE, user_id |-> 0, restaurant_id |-> 0, role |-> ""]

NoToken == [user_id |-> Unset, restaurant_id |-> Unset, role |-> NilRole]

IdleRequest ==
  [pc |-> "idle", route |-> "", item_id |-> 0, header |-> "none", token |-> NoToken,
   restaurant_param |-> 0, ctx |-> NoContext, issued |-> {}, restaurant_conn |-> 0, user_role_conn |-> 0,
   q |-> NoQuery, reached |-> FALSE, aborted_by |-> "", status |-> 0,
   body |-> {}, mutated |-> {}]

\* Request inputs: e-mail addresses of restaurants, contacts and users.
Emails == {"a@x", "b@x"}

\* config.Load: BOOTSTRAP_ADMIN_EMAIL defaults to admin@platform.local.
BootstrapAdminEmail == "admin@platform.local"

\* The restaurants row the bootstrap inserts for the platform organization.
PlatformRow ==
  [id |-> PlatformOrganizationID, email |-> "platform@system.local", contact_email |-> "",
   status |-> "active", kam_id |-> 0, activated_by |-> 0]

\* Variant of BootstrapKAM that puts the initial KAM in the first tenant.
BootstrapKAMInTenant ==
  [id |-> 1, restaurant_id |-> PlatformOrganizationID + 1, role |-> "KAM",
   email |-> BootstrapAdminEmail]

\* The users row the bootstrap creates: the initial KAM.
BootstrapKAM ==
  [id |-> 1, restaurant_id |-> PlatformOrganizationID, role |-> "KAM",
   email |-> BootstrapAdminEmail]

\* No call of a service is being served.
NoCall ==
  [op |-> "", rid |-> 0, by |-> 0, code |-> 0, wrote |-> {}, fault |-> FALSE, mail |-> "",
   err |-> "", id |-> 0]

\* NewBootstrapPlatform: bootstrap_platform is migration version 8, the last.
BootstrapVersion == 8

\* A server process that has passed its flag handling and listens.
Serving ==
  [mode |-> "serve", pc |-> "serving", environment |-> "development",
   password_set |-> TRUE, applied |-> BootstrapVersion, call |-> NoCall]

\* The tables behind the seeded tenants: every restaurant active, every
\* seeded user with an e-mail address.
SeededDB ==
  [restaurants |->
     {PlatformRow} \cup
     {[id |-> i, email |-> "r" \o ToString(i) \o "@x", contact_email |-> "a@x",
       status |-> "active", kam_id |-> 1, activated_by |-> 1] : i \in Tenants},
   users |->
     {[id |-> u.id, restaurant_id |-> u.restaurant_id, role |-> u.role,
       email |-> IF u.role = "KAM" THEN BootstrapAdminEmail ELSE "a@x"] : u \in users},
   reservations |-> {}]

Init ==
  /\ conns = [c \in Conns |-> FreshSession]
  /\ req = [r \in Requests |-> IdleRequest]
  /\ menu_items = {[id |-> i, restaurant_id |-> i + 1] : i \in ItemIDs}
  /\ db = SeededDB
  /\ proc = Serving

(* ------------------------------ routing ------------------------------- *)
\* The routes SetupRouter registers, with the router group each one is
\* registered on and the handler it dispatches to. Group "api" carries no
\* middleware of its own; "protected" is api.Group("") with RequireAuth and
\* SetTenantContext; "restaurants" and "platform" are sub-groups of
\* "protected" that add RequireKAMOrAdmin.
routes ==
  { [path |-> "GET /public/restaurants/:restaurant_id/menu-items/:item_id",
     group |-> "api", handler |-> "GetMenuItemPublic"],
    [path |-> "GET /public/restaurants/:restaurant_id/menu-items",
     group |-> "api", handler |-> "ListMenuItemsPublic"],
    [path |-> "POST /restaurants/register",
     group |-> "api", handler |-> "RegisterRestaurant"],
    [path |-> "GET /menu-items/:id",
     group |-> "protected", handler |-> "GetMenuItem"],
    [path |-> "DELETE /menu-items/:id",
     group |-> "protected", handler |-> "DeleteMenuItem"],
    [path |-> "GET /restaurants",
     group |-> "restaurants", handler |-> "ListRestaurants"],
    [path |-> "GET /restaurants/pending",
     group |-> "restaurants", handler |-> "ListPendingRestaurants"],
    [path |-> "GET /restaurants/:id",
     group |-> "restaurants", handler |-> "GetRestaurant"],
    [path |-> "POST /restaurants/:id/activate",
     group |-> "restaurants", handler |-> "ActivateRestaurant"],
    [path |-> "PATCH /restaurants/:id/status",
     group |-> "restaurants", handler |-> "UpdateRestaurantStatus"],
    [path |-> "PUT /restaurants/:id/assign-kam",
     group |-> "restaurants", handler |-> "AssignKAM"],
    [path |-> "POST /platform/kams",
     group |-> "platform", handler |-> "CreateKAM"],
    [path |-> "GET /platform/kams",
     group |-> "platform", handler |-> "ListKAMs"] }

Paths == {rt.path : rt \in routes}
Route(path) == CHOOSE rt \in routes : rt.path = path

\* Handlers of the restaurant management and KAM creation routes. Their
\* statements go to the restaurants table, which carries no restaurant_id and
\* no policy (CreateKAM also looks up the creator); what this model records
\* of them is that the handler ran.
PlatformHandlers ==
  {"RegisterRestaurant", "ListRestaurants", "ListPendingRestaurants", "GetRestaurant",
   "ActivateRestaurant", "UpdateRestaurantStatus", "AssignKAM", "CreateKAM"}

\* Variant of Chain in which the sub-groups add no RequireKAMOrAdmin.
ChainWithoutRoleGate(group) ==
  IF group = "api" THEN << >> ELSE <<"RequireAuth", "SetTenantContext">>

\* The middleware a request passes before the handler, in order.
Chain(group) ==
  CASE group = "api" -> << >>
    [] group = "protected" -> <<"RequireAuth", "SetTenantContext">>
    [] group = "restaurants" -> <<"RequireAuth", "SetTenantContext", "RequireKAMOrAdmin">>
    [] group = "platform" -> <<"RequireAuth", "SetTenantContext", "RequireKAMOrAdmin">>

First(chain) == IF Len(chain) = 0 THEN "handler" ELSE chain[1]

\* c.Next(): the stage that follows middleware name on the chain.
After(chain, name) ==
  LET i == CHOOSE k \in 1..Len(chain) : chain[k] = name
  IN  IF i < Len(chain) THEN chain[i + 1] ELSE "handler"

NextStage(r, name) == After(Chain(Route(req[r].route).group), name)

(* ------------------------------- tokens ------------------------------- *)
Headers == {"none", "malformed", "invalid", "valid"}

\* Payloads of correctly signed tokens. A claim the payload does not carry
\* is Unset / NilRole.
Tokens ==
  [user_id : {Unset, 1}, restaurant_id : {Unset} \cup RestaurantIDs,
   role : {NilRole} \cup Roles]

\* jwt.ParseWithClaims into JWTClaims: a claim missing from the payload
\* leaves the Go zero value in the struct field.
ParseWithClaims(t) ==
  [user_id |-> IF t.user_id = Unset THEN 0 ELSE t.user_id,
   restaurant_id |-> IF t.restaurant_id = Unset THEN 0 ELSE t.restaurant_id,
   role |-> IF t.role = NilRole THEN "" ELSE t.role]

\* authService.ValidateToken: err # nil unless the token parses and verifies.
ValidateToken(header) == header = "valid"

\* c.JSON(status, ...); c.Abort(); return
Abort(r, by, status) ==
  req' = [req EXCEPT ![r].pc = "done", ![r].aborted_by = by, ![r].status = status]

(* ----------------------------- operations ----------------------------- *)
\* AuthService.generateToken: the claims of the token Login issues to a user.
generateToken(u) ==
  [user_id |-> u.id, restaurant_id |-> u.restaurant_id, role |-> u.role]

\* gin dispatches an incoming request to the first stage of its route. The
\* request carries one of the given headers and tokens and asks for one of
\* the given paths.
Arrive(r, paths, headers, tokens) ==
  /\ req[r].pc = "idle"
  /\ \E path \in paths, header \in headers, t \in tokens \cup {NoToken},
        id \in {0} \cup ItemIDs, rid \in {0} \cup Tenants :
       /\ (header = "valid") = (t # NoToken)
       /\ (id # 0) = (Route(path).handler \in {"GetMenuItem", "DeleteMenuItem", "GetMenuItemPublic"})
       /\ (rid # 0) = (Route(path).handler \in {"GetMenuItemPublic", "ListMenuItemsPublic"})
       /\ req' = [req EXCEPT ![r] =
                    [IdleRequest EXCEPT !.pc = First(Chain(Route(path).group)),
                                        !.route = path, !.header = header,
                                        !.token = t, !.item_id = id,
                                        !.restaurant_param = rid]]
  /\ UNCHANGED <<conns, menu_items, db, proc>>

RequireAuth(r) ==
  /\ req[r].pc = "RequireAuth"
  /\ IF req[r].header = "none"
       THEN Abort(r, "RequireAuth", 401)
     ELSE IF req[r].header = "malformed"
       THEN Abort(r, "RequireAuth", 401)
     ELSE IF ~ValidateToken(req[r].header)
       THEN Abort(r, "RequireAuth", 401)
     ELSE LET claims == ParseWithClaims(req[r].token)
          IN  req' = [req EXCEPT
                ![r].ctx = [exists |-> TRUE, user_id |-> claims.user_id,
                            restaurant_id |-> claims.restaurant_id, role |-> claims.role],
                ![r].pc = NextStage(r, "RequireAuth")]
  /\ UNCHANGED <<conns, menu_items, db, proc>>

\* SetTenantContext, first statement: the context lookups, then
\* db.Exec(DO $$ ... SET ROLE restaurant_app_user ... $$) on whichever
\* connection the pool hands out. The result of the Exec is discarded.
SetTenantContext_SetRole(r, c, ok) ==
  /\ req[r].pc = "SetTenantContext"
  /\ IF ~req[r].ctx.exists
       THEN /\ Abort(r, "SetTenantContext", 500)
            /\ UNCHANGED conns
       ELSE /\ req' = [req EXCEPT ![r].issued = @ \cup {"SET ROLE"},
                                  ![r].pc = "SetTenantContext.restaurant"]
            /\ conns' = IF ok THEN [conns EXCEPT ![c].db_role = "restaurant_app_user"]
                              ELSE conns
  /\ UNCHANGED <<menu_items, db, proc>>

\* SetTenantContext, second statement:
\* db.Exec("SET app.current_restaurant = <restaurantID>"); an error answers 500.
SetTenantContext_SetRestaurant(r, c, ok) ==
  /\ req[r].pc = "SetTenantContext.restaurant"
  /\ IF ok
       THEN /\ conns' = [conns EXCEPT ![c].current_restaurant = req[r].ctx.restaurant_id]
            /\ req' = [req EXCEPT ![r].issued = @ \cup {"SET app.current_restaurant"},
                                  ![r].restaurant_conn = c,
                                  ![r].pc = "SetTenantContext.user_role"]
       ELSE /\ Abort(r, "SetTenantContext", 500)
            /\ UNCHANGED conns
  /\ UNCHANGED <<menu_items, db, proc>>

\* Variant of UserRoleNotNil in which the role assignment is always skipped.
UserRoleNeverSet(ctx) == FALSE

\* userRole != nil: RequireAuth stored the role key, whatever its value.
UserRoleNotNil(ctx) == ctx.exists

\* SetTenantContext, third statement:
\* db.Exec("SET app.current_user_role = '<role>'"), error ignored; then c.Next().
SetTenantContext_SetUserRole(r, c, ok) ==
  /\ req[r].pc = "SetTenantContext.user_role"
  /\ IF UserRoleNotNil(req[r].ctx)
       THEN /\ conns' = IF ok THEN [conns EXCEPT ![c].current_user_role = req[r].ctx.role]
                              ELSE conns
            /\ req' = [req EXCEPT ![r].issued = @ \cup {"SET app.current_user_role"},
                                  ![r].user_role_conn = c,
                                  ![r].pc = NextStage(r, "SetTenantContext")]
       ELSE /\ req' = [req EXCEPT ![r].pc = NextStage(r, "SetTenantContext")]
            /\ UNCHANGED conns
  /\ UNCHANGED <<menu_items, db, proc>>

\* RequireKAMOrAdmin() == RequireRole("KAM", "Admin")
RequireKAMOrAdmin == {"KAM", "Admin"}

\* Variant of HasRole that accepts any role that is present.
HasRoleNonEmpty(role, required) == role # ""

\* hasRole: the role equals one of the required roles.
HasRole(role, required) == role \in required

RequireRole(r) ==
  /\ req[r].pc = "RequireKAMOrAdmin"
  /\ IF ~req[r].ctx.exists
       THEN Abort(r, "RequireRole", 401)
     ELSE IF ~HasRole(req[r].ctx.role, RequireKAMOrAdmin)
       THEN Abort(r, "RequireRole", 403)
     ELSE req' = [req EXCEPT ![r].pc = NextStage(r, "RequireKAMOrAdmin")]
  /\ UNCHANGED <<conns, menu_items, db, proc>>

\* What a statement records about the session it ran on.
Snapshot(c, t) ==
  [conn |-> c, table |-> t, db_role |-> conns[c].db_role,
   current_restaurant |-> conns[c].current_restaurant,
   current_user_role |-> conns[c].current_user_role]

RestaurantIDsOf(rows) == {row.restaurant_id : row \in rows}

\* MenuItemRepository.GetByID: First(&menuItem, id), no tenant predicate.
GetByID(id, sess) == Visible("menu_items", {row \in menu_items : row.id = id}, sess)

\* MenuItemHandler.GetMenuItem
GetMenuItem(r, c) ==
  /\ req[r].pc = "handler"
  /\ Route(req[r].route).handler = "GetMenuItem"
  /\ LET found == GetByID(req[r].item_id, conns[c])
     IN  req' = [req EXCEPT ![r].pc = "done", ![r].reached = TRUE,
                            ![r].q = Snapshot(c, "menu_items"),
                            ![r].status = IF found = {} THEN 404 ELSE 200,
                            ![r].body = RestaurantIDsOf(found)]
  /\ UNCHANGED <<conns, menu_items, db, proc>>

\* MenuItemHandler.DeleteMenuItem: MenuItemRepository.Delete(id), no tenant
\* predicate; a statement that matches no row is no error.
DeleteMenuItem(r, c) ==
  /\ req[r].pc = "handler"
  /\ Route(req[r].route).handler = "DeleteMenuItem"
  /\ LET found == GetByID(req[r].item_id, conns[c])
     IN  /\ menu_items' = menu_items \ found
         /\ req' = [req EXCEPT ![r].pc = "done", ![r].reached = TRUE,
                               ![r].q = Snapshot(c, "menu_items"),
                               ![r].status = 204,
                               ![r].mutated = RestaurantIDsOf(found)]
  /\ UNCHANGED <<conns, db, proc>>

\* MenuItemRepository.GetByIDPublic: Where("id = ? AND restaurant_id = ?").
GetByIDPublic(id, restaurantID, sess) ==
  Visible("menu_items",
          {row \in menu_items : row.id = id /\ row.restaurant_id = restaurantID}, sess)

\* PublicMenuHandler.GetMenuItemPublic
GetMenuItemPublic(r, c) ==
  /\ req[r].pc = "handler"
  /\ Route(req[r].route).handler = "GetMenuItemPublic"
  /\ LET found == GetByIDPublic(req[r].item_id, req[r].restaurant_param, conns[c])
     IN  req' = [req EXCEPT ![r].pc = "done", ![r].reached = TRUE,
                            ![r].q = Snapshot(c, "menu_items"),
                            ![r].status = IF found = {} THEN 404 ELSE 200,
                            ![r].body = RestaurantIDsOf(found)]
  /\ UNCHANGED <<conns, menu_items, db, proc>>

\* MenuItemRepository.GetByRestaurantID: Where("restaurant_id = ?").
MenuItemGetByRestaurantID(restaurantID, sess) ==
  Visible("menu_items", {row \in menu_items : row.restaurant_id = restaurantID}, sess)

\* PublicMenuHandler.ListMenuItemsPublic without category_id: 200 with the
\* rows the statement returns, an empty list included.
ListMenuItemsPublic(r, c) ==
  /\ req[r].pc = "handler"
  /\ Route(req[r].route).handler = "ListMenuItemsPublic"
  /\ LET found == MenuItemGetByRestaurantID(req[r].restaurant_param, conns[c])
     IN  req' = [req EXCEPT ![r].pc = "done", ![r].reached = TRUE,
                            ![r].q = Snapshot(c, "menu_items"),
                            ![r].status = 200,
                            ![r].body = RestaurantIDsOf(found)]
  /\ UNCHANGED <<conns, menu_items, db, proc>>

\* UserRepository.GetByRestaurantID(PlatformOrganizationID)
GetByRestaurantID(restaurantID, sess) ==
  Visible("users", {u \in users : u.restaurant_id = restaurantID}, sess)

\* PlatformHandler.ListKAMs: PlatformService.ListKAMs keeps the KAM rows.
ListKAMs(r, c) ==
  /\ req[r].pc = "handler"
  /\ Route(req[r].route).handler = "ListKAMs"
  /\ LET kams == {u \in GetByRestaurantID(PlatformOrganizationID, conns[c]) : u.role = "KAM"}
     IN  req' = [req EXCEPT ![r].pc = "done", ![r].reached = TRUE,
                            ![r].q = Snapshot(c, "users"),
                            ![r].status = 200,
                            ![r].body = RestaurantIDsOf(kams)]
  /\ UNCHANGED <<conns, menu_items, db, proc>>

\* The restaurant management, registration and KAM creation handlers.
PlatformHandler(r) ==
  /\ req[r].pc = "handler"
  /\ Route(req[r].route).handler \in PlatformHandlers
  /\ req' = [req EXCEPT ![r].pc = "done", ![r].reached = TRUE, ![r].status = 200]
  /\ UNCHANGED <<conns, menu_items, db, proc>>

\* The response is written and the goroutine ends.
Finish(r) ==
  /\ req[r].pc = "done"
  /\ req' = [req EXCEPT ![r] = IdleRequest]
  /\ UNCHANGED <<conns, menu_items, db, proc>>

\* database/sql closes an idle connection and opens a new one in its place
\* (gorm.Open sets no pool limits); the new session starts fresh.
ConnRecycle(c) ==
  /\ conns[c] # FreshSession
  /\ conns' = [conns EXCEPT ![c] = FreshSession]
  /\ UNCHANGED <<req, menu_items, db, proc>>

(* ------------------------- restaurant lifecycle ------------------------ *)
RestaurantStatuses == {"pending", "active", "inactive", "suspended"}

\* The id the sequence gives the next inserted row.
NextID(rows) == IF rows = {} THEN 1 ELSE 1 + CHOOSE m \in {x.id : x \in rows} :
                                           \A y \in rows : y.id <= m

\* The session the binder builds for a caller when all its statements ran on
\* the connection the handler's statement then uses.
BoundSession(u) ==
  [db_role |-> "restaurant_app_user", current_restaurant |-> u.restaurant_id,
   current_user_role |-> u.role]

\* The sessions a statement of an authenticated handler may run on: the one
\* the binder bound for the caller, or one still in the login role.
HandlerSessions(u) == {BoundSession(u), FreshSession}

\* The callers the RequireKAMOrAdmin gate lets through.
GatedCallers == {u \in db.users : HasRole(u.role, RequireKAMOrAdmin)}

Serve(call) == proc' = [proc EXCEPT !.call = call]

\* The versions of the migrations that create the restaurants and the users
\* table and the foreign key restaurants.kam_id -> users.id.
RestaurantsVersion == 1
UsersVersion == 2
KamFKVersion == 4

\* A handler can run its statements: the server listens, no call is in
\* service, and the tables the handlers use exist.
CanServe == proc.pc = "serving" /\ proc.call = NoCall /\ proc.applied >= UsersVersion

\* Variant of NewRestaurant that creates the row already active.
NewRestaurantActive(id, email, contact) ==
  [id |-> id, email |-> email, contact_email |-> contact,
   status |-> "active", kam_id |-> 0, activated_by |-> 0]

\* The row RegisterRestaurant creates: Status RestaurantStatusPending, no KAM.
NewRestaurant(id, email, contact) ==
  [id |-> id, email |-> email, contact_email |-> contact,
   status |-> "pending", kam_id |-> 0, activated_by |-> 0]

\* RestaurantHandler.RegisterRestaurant / RestaurantService.RegisterRestaurant
\* (public route): 409 when a restaurant has the e-mail, else a pending row.
RegisterRestaurant(email, contact) ==
  /\ CanServe
  /\ NextID(db.restaurants) <= MaxRestaurantID
  /\ IF \E x \in db.restaurants : x.email = email
       THEN /\ Serve([NoCall EXCEPT !.op = "RegisterRestaurant", !.code = 409,
                                     !.err = "restaurant with this email already exists"])
            /\ UNCHANGED db
       ELSE LET id == NextID(db.restaurants)
            IN  /\ db' = [db EXCEPT !.restaurants = @ \cup {NewRestaurant(id, email, contact)}]
                /\ Serve([NoCall EXCEPT !.op = "RegisterRestaurant", !.rid = id,
                                        !.code = 201, !.wrote = {"restaurants"}])
  /\ UNCHANGED <<conns, req, menu_items>>

\* UserRepository.GetByIDWithContext on a session.
UserByID(id, sess) ==
  Visible("users", {u \in db.users : u.id = id}, sess)

\* UserRepository.GetByEmailWithContext on a session.
UserByEmail(email, restaurantID, sess) ==
  Visible("users", {u \in db.users : u.email = email /\ u.restaurant_id = restaurantID}, sess)

\* Variant of WelcomeEmail in which a failed e-mail fails the call.
WelcomeEmailFatal(call, okMail) ==
  IF okMail THEN [call EXCEPT !.code = 200, !.mail = "sent"]
            ELSE [call EXCEPT !.code = 400, !.mail = "failed"]

\* ActivateRestaurant after the save: SendRestaurantWelcomeEmail; its error
\* is printed and the restaurant is returned all the same.
WelcomeEmail(call, okMail) ==
  [call EXCEPT !.code = 200, !.mail = IF okMail THEN "sent" ELSE "failed"]

\* RestaurantHandler.ActivateRestaurant / RestaurantService.ActivateRestaurant
\* called by user by for restaurant rid. s1, s2, s3 are the sessions of the
\* three statements on users; okCreate, okUpdate, okMail tell whether the
\* insert, the save and the welcome e-mail go through.
ActivateRestaurant(by, rid, s1, s2, s3, okCreate, okUpdate, okMail) ==
  /\ CanServe
  /\ NextID(db.users) <= MaxUserID
  /\ LET call == [NoCall EXCEPT !.op = "ActivateRestaurant", !.rid = rid, !.by = by.id]
         found == {x \in db.restaurants : x.id = rid}
         restaurant == CHOOSE x \in found : TRUE
         activatingUser == UserByID(by.id, s1)
         adminUser == [id |-> NextID(db.users), restaurant_id |-> rid, role |-> "Admin",
                       email |-> restaurant.contact_email]
         activated == [restaurant EXCEPT !.status = "active", !.activated_by = by.id,
                                         !.kam_id = IF @ = 0 THEN by.id ELSE @]
     IN  IF found = {}
           THEN Serve([call EXCEPT !.code = 404]) /\ UNCHANGED db
         ELSE IF restaurant.status = "active"
           THEN Serve([call EXCEPT !.code = 409, !.err = "restaurant is already active"])
                /\ UNCHANGED db
         ELSE IF activatingUser = {} \/ \E u \in activatingUser : u.role # "KAM"
           THEN Serve([call EXCEPT !.code = 403]) /\ UNCHANGED db
         ELSE IF UserByEmail(restaurant.contact_email, rid, s2) # {}
           THEN Serve([call EXCEPT !.code = 400]) /\ UNCHANGED db
         ELSE IF ~(okCreate /\ CheckAllows("users", rid, s3))
           THEN Serve([call EXCEPT !.code = 400, !.fault = ~okCreate]) /\ UNCHANGED db
         ELSE IF ~okUpdate
           THEN /\ db' = [db EXCEPT !.users = @ \cup {adminUser}]
                /\ Serve([call EXCEPT !.code = 400, !.fault = TRUE, !.wrote = {"users"}])
         ELSE /\ db' = [db EXCEPT !.users = @ \cup {adminUser},
                                  !.restaurants = (@ \ found) \cup {activated}]
              /\ Serve(WelcomeEmail([call EXCEPT !.wrote = {"users", "restaurants"}], okMail))
  /\ UNCHANGED <<conns, req, menu_items>>

\* RestaurantHandler.UpdateRestaurantStatus / RestaurantService.UpdateRestaurantStatus
UpdateRestaurantStatus(by, rid, status, okUpdate) ==
  /\ CanServe
  /\ LET call == [NoCall EXCEPT !.op = "UpdateRestaurantStatus", !.rid = rid, !.by = by.id]
         found == {x \in db.restaurants : x.id = rid}
         restaurant == CHOOSE x \in found : TRUE
     IN  IF status \notin RestaurantStatuses
           THEN Serve([call EXCEPT !.code = 400]) /\ UNCHANGED db
         ELSE IF found = {}
           THEN Serve([call EXCEPT !.code = 400]) /\ UNCHANGED db
         ELSE IF ~okUpdate
           THEN Serve([call EXCEPT !.code = 400, !.fault = TRUE]) /\ UNCHANGED db
         ELSE /\ db' = [db EXCEPT !.restaurants =
                          (@ \ found) \cup {[restaurant EXCEPT !.status = status]}]
              /\ Serve([call EXCEPT !.code = 200, !.wrote = {"restaurants"}])
  /\ UNCHANGED <<conns, req, menu_items>>

\* RestaurantHandler.AssignKAM / RestaurantService.AssignKAM: the user kamID
\* is looked up on session s1 and must be a KAM; the caller is not looked at.
AssignKAM(by, rid, kamID, s1, okUpdate) ==
  /\ CanServe
  /\ LET call == [NoCall EXCEPT !.op = "AssignKAM", !.rid = rid, !.by = by.id]
         kam == UserByID(kamID, s1)
         found == {x \in db.restaurants : x.id = rid}
         restaurant == CHOOSE x \in found : TRUE
     IN  IF kam = {} \/ \E u \in kam : u.role # "KAM"
           THEN Serve([call EXCEPT !.code = 400, !.err = "invalid KAM"]) /\ UNCHANGED db
         ELSE IF found = {}
           THEN Serve([call EXCEPT !.code = 400, !.err = "restaurant not found"]) /\ UNCHANGED db
         ELSE IF ~okUpdate
           THEN Serve([call EXCEPT !.code = 400, !.fault = TRUE]) /\ UNCHANGED db
         ELSE /\ db' = [db EXCEPT !.restaurants =
                          (@ \ found) \cup {[restaurant EXCEPT !.kam_id = kamID]}]
              /\ Serve([call EXCEPT !.code = 200, !.wrote = {"restaurants"}])
  /\ UNCHANGED <<conns, req, menu_items>>

\* The handler has written its response.
Return ==
  /\ proc.pc = "serving" /\ proc.call # NoCall
  /\ proc' = [proc EXCEPT !.call = NoCall]
  /\ UNCHANGED <<conns, req, menu_items, db>>

(* ------------------------ users and reservations ----------------------- *)
\* The errors of the services that report a conflict.
ErrUserExists == "user with this email already exists in this restaurant"
ErrKAMExists == "user with this email already exists"
ErrTableUnavailable == "table is not available at the requested time"

\* The roles the binding of RegisterRequest, CreateUserDTO and UpdateUserDTO
\* accepts (oneof=Admin Staff Client).
BindableRoles == {"Admin", "Staff", "Client"}

\* The sessions a statement of a public handler may run on: a connection in
\* the login role, or one a served request has left bound to its caller.
PublicSessions == {FreshSession} \cup {BoundSession(u) : u \in db.users}

\* AuthHandler.Register: the status of a service error.
RegisterStatus(err) == IF err = "user with this email already exists" THEN 409 ELSE 400

\* UserHandler.CreateUser: the status of a service error.
CreateUserStatus(err) == IF err = ErrUserExists THEN 409 ELSE 400

\* ReservationHandler.CreateReservation: the status of a service error.
CreateReservationStatus(err) == IF err = ErrTableUnavailable THEN 409 ELSE 400

\* c.JSON of a handler that got the error err from its service.
Fail(call, code, err) == Serve([call EXCEPT !.code = code, !.err = err]) /\ UNCHANGED db

\* validateRole: the role is not KAM.
validateRole(role) == role # "KAM"

\* AuthHandler.Register / AuthService.Register (public route): a user with
\* the given role in the given restaurant. s1 and s2 are the sessions of the
\* lookup and the insert.
Register(email, role, restaurantID, s1, s2, okCreate) ==
  /\ CanServe
  /\ NextID(db.users) <= MaxUserID
  /\ LET call == [NoCall EXCEPT !.op = "Register", !.rid = restaurantID]
         found == {x \in db.restaurants : x.id = restaurantID}
         user == [id |-> NextID(db.users), restaurant_id |-> restaurantID, role |-> role,
                  email |-> email]
     IN  IF role \notin BindableRoles
           THEN Fail(call, 400, "binding")
         ELSE IF ~validateRole(role)
           THEN Fail(call, RegisterStatus("KAM users cannot be created via this endpoint"),
                     "KAM users cannot be created via this endpoint")
         ELSE IF found = {}
           THEN Fail(call, RegisterStatus("restaurant not found"), "restaurant not found")
         ELSE IF \E x \in found : x.status # "active"
           THEN Fail(call, RegisterStatus("restaurant is not active"), "restaurant is not active")
         ELSE IF UserByEmail(email, restaurantID, s1) # {}
           THEN Fail(call, RegisterStatus(ErrUserExists), ErrUserExists)
         ELSE IF ~(okCreate /\ CheckAllows("users", restaurantID, s2))
           THEN Serve([call EXCEPT !.code = RegisterStatus("insert"), !.err = "insert",
                                   !.fault = ~okCreate]) /\ UNCHANGED db
         ELSE /\ db' = [db EXCEPT !.users = @ \cup {user}]
              /\ Serve([call EXCEPT !.code = 201, !.wrote = {"users"}])
  /\ UNCHANGED <<conns, req, menu_items>>

\* UserHandler.CreateUser / UserService.CreateUser by an authenticated user,
\* in the caller's restaurant.
CreateUser(by, email, role, s1, s2) ==
  /\ CanServe
  /\ NextID(db.users) <= MaxUserID
  /\ LET restaurantID == by.restaurant_id
         call == [NoCall EXCEPT !.op = "CreateUser", !.rid = restaurantID, !.by = by.id]
         user == [id |-> NextID(db.users), restaurant_id |-> restaurantID, role |-> role,
                  email |-> email]
     IN  IF role \notin BindableRoles
           THEN Fail(call, 400, "binding")
         ELSE IF ~validateRole(role)
           THEN Fail(call, CreateUserStatus("KAM role cannot be used through this endpoint"),
                     "KAM role cannot be used through this endpoint")
         ELSE IF UserByEmail(email, restaurantID, s1) # {}
           THEN Fail(call, CreateUserStatus(ErrUserExists), ErrUserExists)
         ELSE IF ~CheckAllows("users", restaurantID, s2)
           THEN Fail(call, CreateUserStatus("failed to create user"), "failed to create user")
         ELSE /\ db' = [db EXCEPT !.users = @ \cup {user}]
              /\ Serve([call EXCEPT !.code = 201, !.wrote = {"users"}])
  /\ UNCHANGED <<conns, req, menu_items>>

\* Variant of BelongsToRestaurant without the multi-tenancy check.
BelongsToAnyRestaurant(user, restaurantID) == TRUE

\* UserService, "Verify user belongs to the restaurant": the negation of
\* user.RestaurantID != restaurantID.
BelongsToRestaurant(user, restaurantID) == user.restaurant_id = restaurantID

\* services.ErrUserNotFound
ErrUserNotFound == "user not found"

\* UserHandler.UpdateUser / UserService.UpdateUser: the role of user id,
\* which must belong to the caller's restaurant.
UpdateUser(by, id, role, s1, s2) ==
  /\ CanServe
  /\ LET restaurantID == by.restaurant_id
         call == [NoCall EXCEPT !.op = "UpdateUser", !.rid = restaurantID, !.by = by.id,
                                !.id = id]
         found == UserByID(id, s1)
         user == CHOOSE u \in found : TRUE
     IN  IF role \notin BindableRoles
           THEN Fail(call, 400, "binding")
         ELSE IF found = {} \/ (\E u \in found : ~BelongsToRestaurant(u, restaurantID))
           THEN Fail(call, 404, ErrUserNotFound)
         ELSE IF ~validateRole(role)
           THEN Fail(call, 400, "KAM role cannot be used through this endpoint")
         ELSE IF ~(UsingAllows("users", user.restaurant_id, s2)
                   /\ CheckAllows("users", user.restaurant_id, s2))
           THEN Fail(call, 400, "failed to update user")
         ELSE /\ db' = [db EXCEPT !.users = (@ \ {user}) \cup {[user EXCEPT !.role = role]}]
              /\ Serve([call EXCEPT !.code = 200, !.wrote = {"users"}])
  /\ UNCHANGED <<conns, req, menu_items>>

\* UserHandler.GetUser / UserService.GetUser: user id read on session s1;
\* okLookup tells whether the statement goes through.
GetUser(by, id, s1, okLookup) ==
  /\ CanServe
  /\ LET restaurantID == by.restaurant_id
         call == [NoCall EXCEPT !.op = "GetUser", !.rid = restaurantID, !.by = by.id, !.id = id]
         found == UserByID(id, s1)
     IN  IF ~okLookup
           THEN Serve([call EXCEPT !.code = 500, !.fault = TRUE, !.err = "failed to get user"])
         ELSE IF found = {} \/ (\E u \in found : ~BelongsToRestaurant(u, restaurantID))
           THEN Serve([call EXCEPT !.code = 404, !.err = ErrUserNotFound])
         ELSE Serve([call EXCEPT !.code = 200])
  /\ UNCHANGED <<conns, req, menu_items, db>>

\* UserHandler.DeleteUser / UserService.DeleteUser: the lookup on session s1,
\* then DeleteWithContext on session s2, which removes the row if the
\* session sees it and is no error if it does not.
DeleteUser(by, id, s1, s2, okLookup) ==
  /\ CanServe
  /\ LET restaurantID == by.restaurant_id
         call == [NoCall EXCEPT !.op = "DeleteUser", !.rid = restaurantID, !.by = by.id,
                                !.id = id]
         found == UserByID(id, s1)
     IN  IF ~okLookup
           THEN Fail([call EXCEPT !.fault = TRUE], 500, "failed to get user")
         ELSE IF found = {} \/ (\E u \in found : ~BelongsToRestaurant(u, restaurantID))
           THEN Fail(call, 404, ErrUserNotFound)
         ELSE /\ db' = [db EXCEPT !.users = @ \ UserByID(id, s2)]
              /\ Serve([call EXCEPT !.code = 204, !.wrote = {"users"}])
  /\ UNCHANGED <<conns, req, menu_items>>

\* UserHandler.ToggleUserStatus / UserService.ToggleUserStatus: the lookup on
\* session s1, then UpdateUserStatus on session s2, which sets is_active on
\* the row if the session sees it.
ToggleUserStatus(by, id, isActive, s1, s2, okLookup) ==
  /\ CanServe
  /\ LET restaurantID == by.restaurant_id
         call == [NoCall EXCEPT !.op = "ToggleUserStatus", !.rid = restaurantID, !.by = by.id,
                                !.id = id]
         found == UserByID(id, s1)
         seen == UserByID(id, s2)
     IN  IF ~okLookup
           THEN Fail([call EXCEPT !.fault = TRUE], 500, "failed to get user")
         ELSE IF found = {} \/ (\E u \in found : ~BelongsToRestaurant(u, restaurantID))
           THEN Fail(call, 404, ErrUserNotFound)
         ELSE /\ db' = [db EXCEPT !.users =
                          (@ \ seen) \cup {[u EXCEPT !.is_active = isActive] : u \in seen}]
              /\ Serve([call EXCEPT !.code = 200, !.wrote = {"users"}])
  /\ UNCHANGED <<conns, req, menu_items>>

\* The user PlatformService.CreateKAM builds: role KAM, in the platform
\* organization.
NewKAM(id, email) ==
  [id |-> id, restaurant_id |-> PlatformOrganizationID, role |-> "KAM", email |-> email]

\* PlatformHandler.CreateKAM / PlatformService.CreateKAM and CreateKAMUser,
\* behind the KAM/Admin gate. s1, s2 and s3 are the sessions of the lookup of
\* the creator, the lookups by e-mail and the insert.
CreateKAM(by, email, s1, s2, s3) ==
  /\ CanServe
  /\ NextID(db.users) <= MaxUserID
  /\ LET call == [NoCall EXCEPT !.op = "CreateKAM", !.rid = PlatformOrganizationID,
                                !.by = by.id]
         creator == UserByID(by.id, s1)
         user == NewKAM(NextID(db.users), email)
     IN  IF creator = {}
           THEN Fail(call, 400, "creator user not found")
         ELSE IF \E u \in creator : u.restaurant_id # PlatformOrganizationID
                                    \/ u.role \notin {"KAM", "Admin"}
           THEN Fail(call, 403, "only platform KAMs or Admins can create new KAM users")
         ELSE IF UserByEmail(email, PlatformOrganizationID, s2) # {}
           THEN Fail(call, 400, ErrKAMExists)
         ELSE IF user.restaurant_id # PlatformOrganizationID
           THEN Fail(call, 500, "KAM users must belong to platform organization")
         ELSE IF ~CheckAllows("users", user.restaurant_id, s3)
           THEN Fail(call, 500, "failed to create user")
         ELSE /\ db' = [db EXCEPT !.users = @ \cup {user}]
              /\ Serve([call EXCEPT !.code = 201, !.wrote = {"users"}])
  /\ UNCHANGED <<conns, req, menu_items>>

\* The overlap test of ReservationRepository.GetByTableAndTime.
Overlaps(r, startTime, endTime) ==
  \/ r.start_time <= startTime /\ r.end_time > startTime
  \/ r.start_time < endTime /\ r.end_time >= endTime
  \/ r.start_time >= startTime /\ r.start_time < endTime

\* ReservationRepository.GetByTableAndTime on a session.
GetByTableAndTime(restaurantID, tableNumber, startTime, endTime, sess) ==
  {r \in Visible("reservations", db.reservations, sess) :
     /\ r.restaurant_id = restaurantID /\ r.table_number = tableNumber
     /\ r.status # "cancelled" /\ Overlaps(r, startTime, endTime)}

\* ReservationHandler.CreateReservation / ReservationService.CreateReservation
\* by an authenticated user, in the caller's restaurant; the times lie in
\* the future.
CreateReservation(by, tableNumber, startTime, endTime, s1, s2) ==
  /\ CanServe
  /\ NextID(db.reservations) <= MaxReservationID
  /\ LET restaurantID == by.restaurant_id
         call == [NoCall EXCEPT !.op = "CreateReservation", !.rid = restaurantID, !.by = by.id]
         reservation == [id |-> NextID(db.reservations), restaurant_id |-> restaurantID,
                         table_number |-> tableNumber, start_time |-> startTime,
                         end_time |-> endTime, status |-> "pending"]
     IN  IF endTime < startTime
           THEN Fail(call, CreateReservationStatus("end time must be after start time"),
                     "end time must be after start time")
         ELSE IF GetByTableAndTime(restaurantID, tableNumber, startTime, endTime, s1) # {}
           THEN Fail(call, CreateReservationStatus(ErrTableUnavailable), ErrTableUnavailable)
         ELSE IF ~CheckAllows("reservations", restaurantID, s2)
           THEN Fail(call, CreateReservationStatus("insert"), "insert")
         ELSE /\ db' = [db EXCEPT !.reservations = @ \cup {reservation}]
              /\ Serve([call EXCEPT !.code = 201, !.wrote = {"reservations"}])
  /\ UNCHANGED <<conns, req, menu_items>>

(* ------------------------- concurrent handlers ------------------------- *)
\* gin serves every request on a goroutine of its own and no service opens a
\* transaction, so the statements of two calls interleave. In this part req
\* holds the calls in flight: the position of each goroutine and the locals
\* it carries from one statement to the next.
Workers == 1..NumWorkers

IdleCall ==
  [pc |-> "idle", op |-> "", by |-> 0, rid |-> 0, table_number |-> "",
   start_time |-> 0, end_time |-> 0, read |-> {}, code |-> 0]

\* c.JSON: the goroutine w answers with the given status.
Answer(w, call, code) ==
  req' = [req EXCEPT ![w] = [call EXCEPT !.pc = "done", !.code = code]]

\* ReservationService.CreateReservation up to checkTableAvailability: the
\* validation and the statement of GetByTableAndTime on session s1.
CreateReservation_Check(w, by, tableNumber, startTime, endTime, s1) ==
  /\ req[w].pc = "idle"
  /\ LET call == [IdleCall EXCEPT !.op = "CreateReservation", !.by = by.id,
                                  !.rid = by.restaurant_id, !.table_number = tableNumber,
                                  !.start_time = startTime, !.end_time = endTime]
     IN  IF endTime < startTime
           THEN Answer(w, call, CreateReservationStatus("end time must be after start time"))
         ELSE IF GetByTableAndTime(by.restaurant_id, tableNumber, startTime, endTime, s1) # {}
           THEN Answer(w, call, CreateReservationStatus(ErrTableUnavailable))
         ELSE req' = [req EXCEPT ![w] = [call EXCEPT !.pc = "CreateReservation.Create"]]
  /\ UNCHANGED <<conns, menu_items, db, proc>>

\* ReservationService.CreateReservation from reservationRepo.Create on: the
\* insert on session s2.
CreateReservation_Create(w, s2) ==
  /\ req[w].pc = "CreateReservation.Create"
  /\ NextID(db.reservations) <= MaxReservationID
  /\ LET reservation == [id |-> NextID(db.reservations), restaurant_id |-> req[w].rid,
                         table_number |-> req[w].table_number,
                         start_time |-> req[w].start_time, end_time |-> req[w].end_time,
                         status |-> "pending"]
     IN  IF ~CheckAllows("reservations", req[w].rid, s2)
           THEN Answer(w, req[w], CreateReservationStatus("insert")) /\ UNCHANGED db
         ELSE /\ db' = [db EXCEPT !.reservations = @ \cup {reservation}]
              /\ Answer(w, req[w], 201)
  /\ UNCHANGED <<conns, menu_items, proc>>

\* The statuses the binding of UpdateReservationStatusRequest accepts.
ReservationStatuses == {"pending", "confirmed", "cancelled", "completed"}

\* ReservationHandler.UpdateReservation / ReservationService.
\* UpdateReservationStatus: GetByID and Save on session s, the new status
\* written without a look at the table's other reservations.
UpdateReservationStatus(w, by, id, status, s) ==
  /\ req[w].pc = "idle"
  /\ LET call == [IdleCall EXCEPT !.op = "UpdateReservationStatus", !.by = by.id,
                                  !.rid = by.restaurant_id]
         found == Visible("reservations", {x \in db.reservations : x.id = id}, s)
     IN  IF status \notin ReservationStatuses
           THEN Answer(w, call, 400) /\ UNCHANGED db
         ELSE IF found = {}
           THEN Answer(w, call, 404) /\ UNCHANGED db
         ELSE /\ db' = [db EXCEPT !.reservations =
                          (@ \ found) \cup {[x EXCEPT !.status = status] : x \in found}]
              /\ Answer(w, call, 200)
  /\ UNCHANGED <<conns, menu_items, proc>>

\* RestaurantService.ActivateRestaurant up to the e-mail lookup: the
\* restaurant is read, its status and the caller's role are checked, and the
\* contact e-mail is looked up among the restaurant's users.
ActivateRestaurant_Load(w, by, rid, s1, s2) ==
  /\ req[w].pc = "idle"
  /\ LET call == [IdleCall EXCEPT !.op = "ActivateRestaurant", !.by = by.id, !.rid = rid]
         found == {x \in db.restaurants : x.id = rid}
         activatingUser == UserByID(by.id, s1)
     IN  IF found = {}
           THEN Answer(w, call, 404)
         ELSE IF \E x \in found : x.status = "active"
           THEN Answer(w, call, 409)
         ELSE IF activatingUser = {} \/ \E u \in activatingUser : u.role # "KAM"
           THEN Answer(w, call, 403)
         ELSE IF \E x \in found : UserByEmail(x.contact_email, rid, s2) # {}
           THEN Answer(w, call, 400)
         ELSE req' = [req EXCEPT ![w] =
                        [call EXCEPT !.pc = "ActivateRestaurant.Create", !.read = found]]
  /\ UNCHANGED <<conns, menu_items, db, proc>>

\* RestaurantService.ActivateRestaurant, userRepo.CreateWithContext: the
\* insert of the admin user on session s3.
ActivateRestaurant_Create(w, s3, okCreate) ==
  /\ req[w].pc = "ActivateRestaurant.Create"
  /\ NextID(db.users) <= MaxUserID
  /\ LET adminUser == [id |-> NextID(db.users), restaurant_id |-> req[w].rid, role |-> "Admin",
                       email |-> (CHOOSE x \in req[w].read : TRUE).contact_email]
     IN  IF ~(okCreate /\ CheckAllows("users", req[w].rid, s3))
           THEN Answer(w, req[w], 400) /\ UNCHANGED db
         ELSE /\ db' = [db EXCEPT !.users = @ \cup {adminUser}]
              /\ req' = [req EXCEPT ![w].pc = "ActivateRestaurant.Update"]
  /\ UNCHANGED <<conns, menu_items, proc>>

\* RestaurantService.ActivateRestaurant, restaurantRepo.UpdateWithContext:
\* Save writes every column of the struct read at the start; the welcome
\* e-mail that follows never fails the call.
ActivateRestaurant_Update(w, okUpdate) ==
  /\ req[w].pc = "ActivateRestaurant.Update"
  /\ LET restaurant == CHOOSE x \in req[w].read : TRUE
         activated == [restaurant EXCEPT !.status = "active", !.activated_by = req[w].by,
                                         !.kam_id = IF @ = 0 THEN req[w].by ELSE @]
     IN  IF ~okUpdate
           THEN Answer(w, req[w], 400) /\ UNCHANGED db
         ELSE /\ db' = [db EXCEPT !.restaurants =
                          {x \in @ : x.id # restaurant.id} \cup {activated}]
              /\ Answer(w, req[w], 200)
  /\ UNCHANGED <<conns, menu_items, proc>>

\* The response is written and the goroutine ends.
Complete(w) ==
  /\ req[w].pc = "done"
  /\ req' = [req EXCEPT ![w] = IdleCall]
  /\ UNCHANGED <<conns, menu_items, db, proc>>

(* ------------------------- startup and bootstrap ----------------------- *)
\* The command line flags of main; no flag serves.
Modes == {"migrate", "migrate-down", "bootstrap", "serve"}
Environments == {"development", "production"}

\* Variant of HasPlatformKAM that never finds the user.
HasPlatformKAMNever(d, okLookup) == FALSE

\* BootstrapPlatform step 2's lookup: First(&adminUser) with restaurant_id =
\* PlatformOrganizationID and role KAM returned no error.
HasPlatformKAM(d, okLookup) ==
  okLookup /\ \E u \in d.users : u.restaurant_id = PlatformOrganizationID /\ u.role = "KAM"

\* Variant of PasswordRequired that lets production fall back to the default.
PasswordNeverRequired(environment, password_set) == FALSE

\* BootstrapPlatform: no configured password and the environment is production.
PasswordRequired(environment, password_set) ==
  ~password_set /\ environment = "production"

\* database.BootstrapPlatform and BootstrapPlatform.Up (the same statements):
\* the database afterwards and whether an error is returned. okInsert,
\* okLookup and okCreate tell whether the insert of the organization, the
\* lookup of the admin and the insert of the admin go through.
BootstrapPlatform(d, environment, password_set, okInsert, okLookup, okCreate) ==
  LET hasPlatform == \E x \in d.restaurants : x.id = PlatformOrganizationID
      d1 == IF hasPlatform THEN d ELSE [d EXCEPT !.restaurants = @ \cup {PlatformRow}]
      adminUser == [BootstrapKAM EXCEPT !.id = NextID(d.users)]
  IN  IF ~hasPlatform /\ ~okInsert
        THEN [db |-> d, err |-> TRUE, fault |-> TRUE]
      ELSE IF HasPlatformKAM(d1, okLookup)
        THEN [db |-> d1, err |-> FALSE, fault |-> FALSE]
      ELSE IF PasswordRequired(environment, password_set)
        THEN [db |-> d1, err |-> TRUE, fault |-> ~okLookup]
      ELSE IF ~okCreate
        THEN [db |-> d1, err |-> TRUE, fault |-> TRUE]
      ELSE [db |-> [d1 EXCEPT !.users = @ \cup {adminUser}], err |-> FALSE, fault |-> ~okLookup]

\* Variant of BootstrapPlatformDown that leaves the organization in place.
BootstrapPlatformDownKeepsOrganization(d, kamFK, ok) ==
  [db |-> [d EXCEPT !.users = {u \in @ : u.restaurant_id # PlatformOrganizationID}],
   err |-> FALSE, fault |-> FALSE]

\* BootstrapPlatform.Down: delete the users of the platform organization,
\* then the organization. With the foreign key fk_restaurants_kam in place
\* the first delete fails while a restaurant's kam_id names one of them.
BootstrapPlatformDown(d, kamFK, ok) ==
  LET platformUsers == {u \in d.users : u.restaurant_id = PlatformOrganizationID}
      referenced == kamFK /\ \E x \in d.restaurants, u \in platformUsers : x.kam_id = u.id
  IN  IF referenced \/ ~ok
        THEN [db |-> d, err |-> TRUE, fault |-> ~ok]
      ELSE [db |-> [d EXCEPT !.users = @ \ platformUsers,
                             !.restaurants = {x \in @ : x.id # PlatformOrganizationID}],
            err |-> FALSE, fault |-> FALSE]

\* Migration.Down of the given version: version 8 undoes the bootstrap,
\* versions 2 and 1 drop the users and the restaurants table, the others
\* leave the rows alone.
MigrationDown(version, d, ok) ==
  IF version = BootstrapVersion THEN BootstrapPlatformDown(d, version >= KamFKVersion, ok)
  ELSE IF ~ok THEN [db |-> d, err |-> TRUE, fault |-> TRUE]
  ELSE IF version = UsersVersion THEN [db |-> [d EXCEPT !.users = {}], err |-> FALSE, fault |-> FALSE]
  ELSE IF version = RestaurantsVersion
    THEN [db |-> [d EXCEPT !.restaurants = {}], err |-> FALSE, fault |-> FALSE]
  ELSE [db |-> d, err |-> FALSE, fault |-> FALSE]

\* os.Exit(code) of a process started with a flag.
Exit(code, fault) ==
  [proc EXCEPT !.pc = "exited", !.call = [NoCall EXCEPT !.op = proc.mode, !.code = code,
                                                         !.fault = fault]]

\* main up to the flags: the configuration is loaded and the flag selects
\* what the process does; without a flag it sets up the router and listens.
Start(mode, environment, password_set) ==
  /\ proc.pc \in {"stopped", "exited"}
  /\ proc' = [proc EXCEPT !.mode = mode, !.environment = environment,
                          !.password_set = password_set, !.call = NoCall,
                          !.pc = IF mode = "serve" THEN "serving" ELSE "running"]
  /\ UNCHANGED <<conns, req, menu_items, db>>

\* Runner.Up, one turn of its loop: the next pending migration runs and is
\* recorded; an error ends the process with status 1, the end of the list
\* with status 0. ok and okRecord tell whether the migration's statements
\* and recordMigration go through.
RunnerUp(ok, okLookup, okRecord) ==
  /\ proc.pc = "running" /\ proc.mode = "migrate"
  /\ NextID(db.users) <= MaxUserID
  /\ LET version == proc.applied + 1
         up == IF version = BootstrapVersion
                 THEN BootstrapPlatform(db, proc.environment, proc.password_set, ok, okLookup, ok)
                 ELSE [db |-> db, err |-> ~ok, fault |-> ~ok]
     IN  IF proc.applied = BootstrapVersion
           THEN proc' = Exit(0, FALSE) /\ UNCHANGED db
         ELSE IF up.err
           THEN proc' = Exit(1, up.fault) /\ db' = up.db
         ELSE IF ~okRecord
           THEN proc' = Exit(1, TRUE) /\ db' = up.db
         ELSE /\ proc' = [proc EXCEPT !.applied = version,
                                      !.call = [NoCall EXCEPT !.op = proc.mode, !.fault = up.fault]]
              /\ db' = up.db
  /\ UNCHANGED <<conns, req, menu_items>>

\* Runner.Down: the last applied migration is rolled back and its record
\* removed; the process ends.
RunnerDown(ok, okRemove) ==
  /\ proc.pc = "running" /\ proc.mode = "migrate-down"
  /\ LET down == MigrationDown(proc.applied, db, ok)
     IN  IF proc.applied = 0
           THEN proc' = Exit(1, FALSE) /\ UNCHANGED db
         ELSE IF down.err
           THEN proc' = Exit(1, down.fault) /\ db' = down.db
         ELSE IF ~okRemove
           THEN proc' = Exit(1, TRUE) /\ db' = down.db
         ELSE proc' = [Exit(0, FALSE) EXCEPT !.applied = proc.applied - 1] /\ db' = down.db
  /\ UNCHANGED <<conns, req, menu_items>>

\* main with -bootstrap: database.BootstrapPlatform, then exit. Without the
\* restaurants and users tables its statements fail.
Bootstrap(okInsert, okLookup, okCreate) ==
  /\ proc.pc = "running" /\ proc.mode = "bootstrap"
  /\ NextID(db.users) <= MaxUserID
  /\ LET run == BootstrapPlatform(db, proc.environment, proc.password_set,
                                  okInsert, okLookup, okCreate)
     IN  IF proc.applied < UsersVersion
           THEN proc' = Exit(1, FALSE) /\ UNCHANGED db
         ELSE proc' = Exit(IF run.err THEN 1 ELSE 0, run.fault) /\ db' = run.db
  /\ UNCHANGED <<conns, req, menu_items>>

\* The server receives SIGINT or SIGTERM and shuts down.
Shutdown ==
  /\ proc.pc = "serving" /\ proc.call = NoCall
  /\ proc' = [proc EXCEPT !.pc = "exited"]
  /\ UNCHANGED <<conns, req, menu_items, db>>

(* --------------------------- specifications --------------------------- *)
\* Tenant traffic: requests that carry a token Login issued to one of the
\* users, on the routes that read or write a table under row level security,
\* and unauthenticated requests on the public menu route; every statement
\* runs on any connection of the pool.
TenantPaths ==
  {rt.path : rt \in {x \in routes : x.handler \in
     {"GetMenuItem", "DeleteMenuItem", "GetMenuItemPublic", "ListKAMs"}}}

IssuedTokens == {generateToken(u) : u \in users}

Next ==
  \/ \E r \in Requests : Arrive(r, TenantPaths, {"none", "valid"}, IssuedTokens)
  \/ \E r \in Requests : RequireAuth(r)
  \/ \E r \in Requests, c \in Conns, ok \in BOOLEAN : SetTenantContext_SetRole(r, c, ok)
  \/ \E r \in Requests, c \in Conns, ok \in BOOLEAN : SetTenantContext_SetRestaurant(r, c, ok)
  \/ \E r \in Requests, c \in Conns, ok \in BOOLEAN : SetTenantContext_SetUserRole(r, c, ok)
  \/ \E r \in Requests : RequireRole(r)
  \/ \E r \in Requests, c \in Conns : GetMenuItem(r, c)
  \/ \E r \in Requests, c \in Conns : DeleteMenuItem(r, c)
  \/ \E r \in Requests, c \in Conns : GetMenuItemPublic(r, c)
  \/ \E r \in Requests, c \in Conns : ListKAMs(r, c)
  \/ \E r \in Requests : Finish(r)
  \/ \E c \in Conns : ConnRecycle(c)

Spec == Init /\ [][Next]_vars

\* Gate traffic: every route, every header and every correctly signed
\* payload, complete or not, with the pool narrowed to its first connection
\* (no verdict of the middleware chain reads a session).
GateConns == {c \in Conns : \A d \in Conns : c <= d}

NextGate ==
  \/ \E r \in Requests : Arrive(r, Paths, Headers, Tokens)
  \/ \E r \in Requests : RequireAuth(r)
  \/ \E r \in Requests, c \in GateConns, ok \in BOOLEAN : SetTenantContext_SetRole(r, c, ok)
  \/ \E r \in Requests, c \in GateConns, ok \in BOOLEAN : SetTenantContext_SetRestaurant(r, c, ok)
  \/ \E r \in Requests, c \in GateConns, ok \in BOOLEAN : SetTenantContext_SetUserRole(r, c, ok)
  \/ \E r \in Requests : RequireRole(r)
  \/ \E r \in Requests, c \in GateConns : GetMenuItem(r, c)
  \/ \E r \in Requests, c \in GateConns : DeleteMenuItem(r, c)
  \/ \E r \in Requests, c \in GateConns : GetMenuItemPublic(r, c)
  \/ \E r \in Requests, c \in GateConns : ListMenuItemsPublic(r, c)
  \/ \E r \in Requests, c \in GateConns : ListKAMs(r, c)
  \/ \E r \in Requests : PlatformHandler(r)
  \/ \E r \in Requests : Finish(r)
  \/ \E c \in GateConns : ConnRecycle(c)

SpecGate == Init /\ [][NextGate]_vars

\* Public menu traffic next to tenant traffic: authenticated reads of menu
\* items by the seeded users and unauthenticated listings of a restaurant's
\* menu, every statement on any connection of the pool.
PublicPaths ==
  {rt.path : rt \in {x \in routes : x.handler \in {"GetMenuItem", "ListMenuItemsPublic"}}}

NextPublic ==
  \/ \E r \in Requests : Arrive(r, PublicPaths, {"none", "valid"}, IssuedTokens)
  \/ \E r \in Requests : RequireAuth(r)
  \/ \E r \in Requests, c \in Conns, ok \in BOOLEAN : SetTenantContext_SetRole(r, c, ok)
  \/ \E r \in Requests, c \in Conns, ok \in BOOLEAN : SetTenantContext_SetRestaurant(r, c, ok)
  \/ \E r \in Requests, c \in Conns, ok \in BOOLEAN : SetTenantContext_SetUserRole(r, c, ok)
  \/ \E r \in Requests, c \in Conns : GetMenuItem(r, c)
  \/ \E r \in Requests, c \in Conns : ListMenuItemsPublic(r, c)
  \/ \E r \in Requests : Finish(r)
  \/ \E c \in Conns : ConnRecycle(c)

SpecPublic == Init /\ [][NextPublic]_vars

\* Platform traffic after the bootstrap: registrations, activations and
\* status updates by the callers the role gate lets through.
AfterBootstrap == [restaurants |-> {PlatformRow}, users |-> {BootstrapKAM}, reservations |-> {}]

InitLifecycle ==
  /\ conns = [c \in Conns |-> FreshSession]
  /\ req = [r \in Requests |-> IdleRequest]
  /\ menu_items = {}
  /\ db = AfterBootstrap
  /\ proc = Serving

\* Registrations name a contact other than the restaurant's own address;
\* status updates ask for active, suspended or the unknown status closed.
RegistrationInputs == {<<"a@x", "b@x">>, <<"b@x", "a@x">>}
StatusInputs == {"active", "suspended", "closed"}

NextLifecycle ==
  \/ \E in \in RegistrationInputs : RegisterRestaurant(in[1], in[2])
  \/ \E by \in GatedCallers, rid \in RestaurantIDs :
       \E s1 \in HandlerSessions(by), s2 \in HandlerSessions(by), s3 \in HandlerSessions(by),
          okCreate \in BOOLEAN, okUpdate \in BOOLEAN, okMail \in BOOLEAN :
         ActivateRestaurant(by, rid, s1, s2, s3, okCreate, okUpdate, okMail)
  \/ \E by \in GatedCallers, rid \in Tenants, status \in StatusInputs, okUpdate \in BOOLEAN :
       UpdateRestaurantStatus(by, rid, status, okUpdate)
  \/ \E by \in GatedCallers, rid \in Tenants, kam \in db.users, okUpdate \in BOOLEAN :
       \E s1 \in HandlerSessions(by) : AssignKAM(by, rid, kam.id, s1, okUpdate)
  \/ Return

SpecLifecycle == InitLifecycle /\ [][NextLifecycle]_vars

\* The life of a deployment: processes started one after the other with any
\* flag, environment and bootstrap password, on a database that starts
\* without tables; a serving process takes registrations, activations and
\* status updates.
Stopped == [Serving EXCEPT !.pc = "stopped", !.applied = 0]

InitStartup ==
  /\ conns = [c \in Conns |-> FreshSession]
  /\ req = [r \in Requests |-> IdleRequest]
  /\ menu_items = {}
  /\ db = [restaurants |-> {}, users |-> {}, reservations |-> {}]
  /\ proc = Stopped

NextStartup ==
  \/ \E mode \in Modes, environment \in Environments, password_set \in BOOLEAN :
       Start(mode, environment, password_set)
  \/ \E ok \in BOOLEAN, okLookup \in BOOLEAN, okRecord \in BOOLEAN : RunnerUp(ok, okLookup, okRecord)
  \/ \E ok \in BOOLEAN, okRemove \in BOOLEAN : RunnerDown(ok, okRemove)
  \/ \E okInsert \in BOOLEAN, okLookup \in BOOLEAN, okCreate \in BOOLEAN :
       Bootstrap(okInsert, okLookup, okCreate)
  \/ Shutdown
  \/ RegisterRestaurant("a@x", "b@x")
  \/ \E by \in GatedCallers, rid \in Tenants :
       \E s3 \in HandlerSessions(by) :
         ActivateRestaurant(by, rid, BoundSession(by), BoundSession(by), s3, TRUE, TRUE, TRUE)
  \/ \E by \in GatedCallers, rid \in RestaurantIDs :
       UpdateRestaurantStatus(by, rid, "suspended", TRUE)
  \/ Return

SpecStartup == InitStartup /\ [][NextStartup]_vars

\* Account traffic on a bootstrapped platform with one active and one
\* pending tenant: user registration, user create and update, KAM creation,
\* activation, reservations for one table that end at the same time, and
\* the bootstrap run again between two servers.
WithTenants ==
  [AfterBootstrap EXCEPT !.restaurants = @ \cup
     {[NewRestaurant(2, "a@x", "a@x") EXCEPT !.status = "active"], NewRestaurant(3, "b@x", "b@x")}]

InitUsers ==
  /\ conns = [c \in Conns |-> FreshSession]
  /\ req = [r \in Requests |-> IdleRequest]
  /\ menu_items = {}
  /\ db = WithTenants
  /\ proc = Serving

RoleInputs == {"Staff", "KAM"}
UserEmails == {"a@x"}
Times == 1..MaxTime

\* Reservations are made by the users of the active tenant.
Guests == {u \in db.users : u.restaurant_id = 2}

NextUsers ==
  \/ \E email \in UserEmails, role \in RoleInputs, restaurantID \in Tenants :
       \E s1 \in PublicSessions, s2 \in PublicSessions, okCreate \in BOOLEAN :
         Register(email, role, restaurantID, s1, s2, okCreate)
  \/ \E by \in db.users, email \in UserEmails, role \in RoleInputs :
       \E s1 \in HandlerSessions(by), s2 \in HandlerSessions(by) : CreateUser(by, email, role, s1, s2)
  \/ \E by \in db.users, u \in db.users, role \in RoleInputs :
       \E s1 \in HandlerSessions(by), s2 \in HandlerSessions(by) : UpdateUser(by, u.id, role, s1, s2)
  \/ \E by \in GatedCallers, email \in UserEmails :
       \E s1 \in HandlerSessions(by), s2 \in HandlerSessions(by), s3 \in HandlerSessions(by) :
         CreateKAM(by, email, s1, s2, s3)
  \/ \E by \in GatedCallers, rid \in Tenants :
       ActivateRestaurant(by, rid, FreshSession, FreshSession, FreshSession, TRUE, TRUE, TRUE)
  \/ \E by \in Guests, startTime \in Times :
       \E s1 \in HandlerSessions(by), s2 \in HandlerSessions(by) :
         CreateReservation(by, "T1", startTime, MaxTime, s1, s2)
  \/ Return
  \/ Shutdown
  \/ \E mode \in {"bootstrap", "serve"} : Start(mode, "development", TRUE)
  \/ \E okLookup \in BOOLEAN : Bootstrap(TRUE, okLookup, TRUE)

SpecUsers == InitUsers /\ [][NextUsers]_vars

\* Two goroutines on a platform with one active tenant that has a staff
\* user and one pending tenant: reservations for one table, reservation
\* status updates and activations, statement by statement.
StaffUser == [id |-> 2, restaurant_id |-> 2, role |-> "Staff", email |-> "s@x"]

InitConcurrent ==
  /\ conns = [c \in Conns |-> FreshSession]
  /\ req = [w \in Workers |-> IdleCall]
  /\ menu_items = {}
  /\ db = [WithTenants EXCEPT !.users = @ \cup {StaffUser}]
  /\ proc = Serving

StatusUpdates == {"confirmed", "cancelled"}

NextConcurrent ==
  \/ \E w \in Workers, by \in Guests, startTime \in Times, endTime \in Times :
       \E s1 \in HandlerSessions(by) : CreateReservation_Check(w, by, "T1", startTime, endTime, s1)
  \/ \E w \in Workers, by \in Guests :
       \E s2 \in HandlerSessions(by) : CreateReservation_Create(w, s2)
  \/ \E w \in Workers, by \in Guests, x \in db.reservations, status \in StatusUpdates :
       \E s \in HandlerSessions(by) : UpdateReservationStatus(w, by, x.id, status, s)
  \/ \E w \in Workers, by \in GatedCallers, rid \in Tenants :
       \E s1 \in HandlerSessions(by), s2 \in HandlerSessions(by) :
         ActivateRestaurant_Load(w, by, rid, s1, s2)
  \/ \E w \in Workers, by \in GatedCallers, okCreate \in BOOLEAN :
       \E s3 \in HandlerSessions(by) : ActivateRestaurant_Create(w, s3, okCreate)
  \/ \E w \in Workers, okUpdate \in BOOLEAN : ActivateRestaurant_Update(w, okUpdate)
  \/ \E w \in Workers : Complete(w)

SpecConcurrent == InitConcurrent /\ [][NextConcurrent]_vars

\* Public registration traffic: POST /auth/register carries any restaurant
\* id, the sentinel's included, and any role string.
NextRegister ==
  \/ \E email \in Emails, role \in Roles, restaurantID \in RestaurantIDs :
       \E s1 \in PublicSessions, s2 \in PublicSessions, okCreate \in BOOLEAN :
         Register(email, role, restaurantID, s1, s2, okCreate)
  \/ Return

SpecRegister == InitUsers /\ [][NextRegister]_vars

\* The availability check on its inputs: table T1 of the active tenant holds
\* any one reservation, cancelled or not, and a guest asks for any range.
Slots == 1..MaxSlot

Held ==
  {[id |-> 1, restaurant_id |-> 2, table_number |-> "T1", start_time |-> startTime,
    end_time |-> endTime, status |-> status] :
     startTime \in Slots, endTime \in Slots, status \in {"pending", "cancelled"}}

InitAvailability ==
  /\ conns = [c \in Conns |-> FreshSession]
  /\ req = [w \in Workers |-> IdleCall]
  /\ menu_items = {}
  /\ \E x \in {y \in Held : y.start_time <= y.end_time} :
       db = [WithTenants EXCEPT !.users = @ \cup {StaffUser}, !.reservations = {x}]
  /\ proc = Serving

NextAvailability ==
  \/ \E w \in Workers, by \in Guests, startTime \in Slots, endTime \in Slots :
       \E s1 \in HandlerSessions(by) : CreateReservation_Check(w, by, "T1", startTime, endTime, s1)
  \/ \E w \in Workers, by \in Guests :
       \E s2 \in HandlerSessions(by) : CreateReservation_Create(w, s2)
  \/ \E w \in Workers : Complete(w)

SpecAvailability == InitAvailability /\ [][NextAvailability]_vars

\* User management on the seeded tenants, the is_active column of users
\* included (default true): any user reads, updates, deletes or toggles any
\* user id.
InitAccounts ==
  /\ conns = [c \in Conns |-> FreshSession]
  /\ req = [r \in Requests |-> IdleRequest]
  /\ menu_items = {}
  /\ db = [SeededDB EXCEPT !.users =
             {[id |-> u.id, restaurant_id |-> u.restaurant_id, role |-> u.role,
               email |-> u.email, is_active |-> TRUE] : u \in @}]
  /\ proc = Serving

NextAccounts ==
  \/ \E by \in db.users, id \in 1..MaxRestaurantID, okLookup \in BOOLEAN :
       \E s1 \in HandlerSessions(by) : GetUser(by, id, s1, okLookup)
  \/ \E by \in db.users, id \in 1..MaxRestaurantID, role \in RoleInputs :
       \E s1 \in HandlerSessions(by), s2 \in HandlerSessions(by) : UpdateUser(by, id, role, s1, s2)
  \/ \E by \in db.users, id \in 1..MaxRestaurantID, okLookup \in BOOLEAN :
       \E s1 \in HandlerSessions(by), s2 \in HandlerSessions(by) :
         DeleteUser(by, id, s1, s2, okLookup)
  \/ \E by \in db.users, id \in 1..MaxRestaurantID, isActive \in BOOLEAN, okLookup \in BOOLEAN :
       \E s1 \in HandlerSessions(by), s2 \in HandlerSessions(by) :
         ToggleUserStatus(by, id, isActive, s1, s2, okLookup)
  \/ Return

SpecAccounts == InitAccounts /\ [][NextAccounts]_vars

(* --------------------------- migration records ------------------------- *)
\* The runner against the schema_migrations table, one run after the other.
\* Here db carries the versions recorded in schema_migrations and proc is the
\* run: its position in Runner.Up's loop, the appliedMap it built at the
\* start, and the version at which its last Up gave up.
\* NewRunner: the registered migrations sorted by version, versions 1 to 8.
migrations == [i \in 1..BootstrapVersion |-> i]

RECURSIVE Ascending(_)
\* Order("version ASC") over a set of versions.
Ascending(S) ==
  IF S = {} THEN << >>
  ELSE LET least == CHOOSE v \in S : \A w \in S : v <= w
       IN  <<least>> \o Ascending(S \ {least})

\* getAppliedMigrations: the recorded versions, ascending.
getAppliedMigrations(d) == Ascending(d.schema_migrations)

\* Variant of lastApplied that takes the head of the list.
firstApplied(applied) == applied[1]

\* Runner.Down: applied[len(applied)-1]
lastApplied(applied) == applied[Len(applied)]

NoRun == [pc |-> "idle", mode |-> "", i |-> 0, appliedMap |-> {}, failed |-> 0, err |-> ""]

\* The run returns err (the empty string for nil) to main.
Returned(mode, err) == [NoRun EXCEPT !.mode = mode, !.err = err]

\* Runner.Up up to its loop: getAppliedMigrations fills appliedMap; its
\* error ends the run.
Up_Begin(okLookup) ==
  /\ proc.pc = "idle"
  /\ proc' = IF okLookup
               THEN [NoRun EXCEPT !.pc = "up", !.mode = "up", !.i = 1,
                                  !.appliedMap = {v \in db.schema_migrations : TRUE}]
               ELSE Returned("up", "failed to get applied migrations")
  /\ UNCHANGED <<conns, req, menu_items, db>>

\* Runner.Up, one turn of its loop: an applied migration is skipped; a
\* pending one runs and is recorded by recordMigration; an error of either
\* returns. ok and okRecord tell whether the two go through.
Up_Migration(ok, okRecord) ==
  /\ proc.pc = "up"
  /\ LET version == migrations[proc.i]
         next == IF proc.i = Len(migrations) THEN Returned("up", "")
                 ELSE [proc EXCEPT !.i = @ + 1]
     IN  IF version \in proc.appliedMap
           THEN proc' = next /\ UNCHANGED db
         ELSE IF ~ok
           THEN /\ proc' = [Returned("up", "failed to run migration") EXCEPT !.failed = version]
                /\ UNCHANGED db
         ELSE IF ~okRecord
           THEN /\ proc' = [Returned("up", "failed to record migration") EXCEPT !.failed = version]
                /\ UNCHANGED db
         ELSE /\ db' = [db EXCEPT !.schema_migrations = @ \cup {version}]
              /\ proc' = next
  /\ UNCHANGED <<conns, req, menu_items>>

\* Runner.Down: the last applied migration is rolled back and removeMigration
\* deletes its record; an empty table, a failed Down and a failed delete
\* return an error.
Down(okLookup, ok, okRemove) ==
  /\ proc.pc = "idle"
  /\ LET applied == getAppliedMigrations(db)
     IN  IF ~okLookup
           THEN proc' = Returned("down", "failed to get applied migrations") /\ UNCHANGED db
         ELSE IF Len(applied) = 0
           THEN proc' = Returned("down", "no migrations to rollback") /\ UNCHANGED db
         ELSE IF ~ok
           THEN proc' = Returned("down", "failed to rollback migration") /\ UNCHANGED db
         ELSE IF ~okRemove
           THEN proc' = Returned("down", "failed to remove migration record") /\ UNCHANGED db
         ELSE /\ db' = [db EXCEPT !.schema_migrations = @ \ {lastApplied(applied)}]
              /\ proc' = Returned("down", "")
  /\ UNCHANGED <<conns, req, menu_items>>

InitMigrations ==
  /\ conns = [c \in Conns |-> FreshSession]
  /\ req = [r \in Requests |-> IdleRequest]
  /\ menu_items = {}
  /\ db = [schema_migrations |-> {}]
  /\ proc = NoRun

NextMigrations ==
  \/ \E okLookup \in BOOLEAN : Up_Begin(okLookup)
  \/ \E ok \in BOOLEAN, okRecord \in BOOLEAN : Up_Migration(ok, okRecord)
  \/ \E okLookup \in BOOLEAN, ok \in BOOLEAN, okRemove \in BOOLEAN : Down(okLookup, ok, okRemove)

SpecMigrations == InitMigrations /\ [][NextMigrations]_vars

(* ------------------------------- claims ------------------------------- *)
AppRole == "restaurant_app_user"
PlatformRoles == {"KAM", "Admin"}

\* The route group of request r, and whether its handler has run a statement.
GroupOf(r) == Route(req[r].route).group
Queried(r) == req[r].q.conn # 0
RowsOf(r) == req[r].body \cup req[r].mutated

\* C1: a request bound to one tenant never observes or mutates rows of
\* another tenant over the shared pool, whichever connection earlier
\* requests used (the platform rows a KAM or Admin may see excepted).
C1_NoCrossTenantRows ==
  \A r \in Requests :
    (req[r].ctx.exists /\ Queried(r)) =>
      \A rid \in RowsOf(r) :
        \/ rid = req[r].ctx.restaurant_id
        \/ rid = PlatformOrganizationID /\ req[r].ctx.role \in PlatformRoles

\* C2: the binder's current-restaurant and current-role assignments of a
\* request ran on the physical connection its handler's statement runs on.
C2_BinderOnQueryConnection ==
  \A r \in Requests :
    (req[r].ctx.exists /\ Queried(r)) =>
      /\ req[r].restaurant_conn = req[r].q.conn
      /\ req[r].user_role_conn = req[r].q.conn

\* C3: a statement on a tenant table issued on a session whose restaurant
\* variable is X returns and mutates only rows of restaurant X, or rows of
\* the platform organization when the session's role variable is KAM or Admin.
C3_SessionRestaurantBoundsRows ==
  \A r \in Requests :
    (Queried(r) /\ req[r].q.current_restaurant # Unset) =>
      \A rid \in RowsOf(r) :
        \/ rid = req[r].q.current_restaurant
        \/ rid = PlatformOrganizationID /\ req[r].q.current_user_role \in PlatformRoles

\* What a policy of the given table admits, spelled out: the row belongs to
\* the session's restaurant, or (with the platform clause) to the platform
\* organization while the session's role is KAM or Admin.
Admits(platformClause, rid, sess) ==
  \/ sess.current_restaurant # Unset /\ rid = sess.current_restaurant
  \/ platformClause /\ rid = PlatformOrganizationID /\ sess.current_user_role \in PlatformRoles

\* C4 as stated: every tenant table's policy is FOR ALL, its USING and WITH
\* CHECK conditions are the same, and on every table they admit the rows of
\* the session's restaurant and, for KAM and Admin, the platform rows.
C4_SamePredicateEverywhere ==
  \A c \in Conns :
    conns[c].db_role = AppRole =>
      \A t \in RLSTables, rid \in RestaurantIDs :
        /\ CreatePolicy(t).cmd = "ALL"
        /\ UsingAllows(t, rid, conns[c]) = Admits(TRUE, rid, conns[c])
        /\ CheckAllows(t, rid, conns[c]) = Admits(TRUE, rid, conns[c])

\* C4: every tenant table carries one FOR ALL policy whose conditions for
\* existing and for new rows are the same; the condition admits the rows of
\* the session's restaurant on every table, and the platform rows for KAM and
\* Admin on table users only. Both migration runners install this shape.
C4_PolicyShape ==
  \A c \in Conns :
    conns[c].db_role = AppRole =>
      /\ \A t \in RLSTables, rid \in RestaurantIDs :
           /\ CreatePolicy(t).cmd = "ALL"
           /\ UsingAllows(t, rid, conns[c]) = Admits(t = "users", rid, conns[c])
           /\ CheckAllows(t, rid, conns[c]) = UsingAllows(t, rid, conns[c])
      /\ \A t \in LegacyRLSTables, rid \in RestaurantIDs :
           /\ createRLSPolicies(t).cmd = "ALL"
           /\ createRLSPolicies(t).to = conns[c].db_role
           /\ Condition(createRLSPolicies(t).using, rid, conns[c]) = Admits(t = "users", rid, conns[c])
           /\ WithCheckOf(createRLSPolicies(t)) = createRLSPolicies(t).using

\* A statement on menu_items ran on a session of the application role that a
\* KAM or Admin of some tenant had bound.
C4_Witness ==
  \E r \in Requests :
    /\ Queried(r) /\ req[r].q.table = "menu_items"
    /\ req[r].q.db_role = AppRole
    /\ req[r].q.current_user_role \in PlatformRoles
    /\ req[r].q.current_restaurant \in Tenants

\* C5: when the handler of an authenticated request runs its first
\* statement, the binder has issued both assignments, current restaurant
\* and current role.
C5_AssignmentsBeforeQuery ==
  \A r \in Requests :
    (req[r].ctx.exists /\ (Queried(r) \/ req[r].pc = "handler")) =>
      {"SET app.current_restaurant", "SET app.current_user_role"} \subseteq req[r].issued

\* The handler of an authenticated request has run its statement.
C5_Witness ==
  \E r \in Requests :
    /\ req[r].ctx.exists /\ Queried(r)
    /\ req[r].ctx.restaurant_id \in Tenants
    /\ req[r].q.table = "menu_items"

\* C6 as stated: a statement on a tenant table that runs on a session whose
\* restaurant variable was never set returns and mutates no row.
C6_UnsetReturnsEmpty ==
  \A r \in Requests :
    (Queried(r) /\ req[r].q.current_restaurant = Unset) => RowsOf(r) = {}

\* C6: on a session that runs as the application role and whose restaurant
\* variable was never set, a statement returns and mutates no row, except
\* that on table users it may return platform rows when the session's role
\* variable is KAM or Admin. (A session still in the login role is not
\* subject to the policies.)
C6_UnsetUnderAppRole ==
  \A r \in Requests :
    (Queried(r) /\ req[r].q.current_restaurant = Unset /\ req[r].q.db_role = AppRole) =>
      RowsOf(r) \subseteq
        (IF req[r].q.table = "users" /\ req[r].q.current_user_role \in PlatformRoles
           THEN {PlatformOrganizationID} ELSE {})

\* A lookup of an existing menu item ran on an application-role session with
\* no restaurant variable and found nothing.
C6_Witness ==
  \E r \in Requests :
    /\ Queried(r) /\ req[r].q.table = "menu_items"
    /\ req[r].q.current_restaurant = Unset /\ req[r].q.db_role = AppRole
    /\ \E row \in menu_items : row.id = req[r].item_id
    /\ req[r].status = 404 /\ req[r].body = {}

\* C7: a request carrying the token of one restaurant that fetches by id a
\* menu item owned by another restaurant is answered 404 "menu item not
\* found" and receives no data of the row.
C7_CrossTenantFetchNotFound ==
  \A r \in Requests :
    ( /\ req[r].pc = "done" /\ req[r].reached
      /\ Route(req[r].route).handler = "GetMenuItem"
      /\ req[r].ctx.restaurant_id \in Tenants
      /\ \E row \in menu_items :
           row.id = req[r].item_id /\ row.restaurant_id # req[r].ctx.restaurant_id )
    => (req[r].status = 404 /\ req[r].body = {})

\* A correctly signed payload that lacks user_id, restaurant_id or role.
LacksClaim(t) == t.user_id = Unset \/ t.restaurant_id = Unset \/ t.role = NilRole

\* C8: a request on a protected route whose validated token lacks user_id,
\* restaurant_id or role is aborted with 401 or 403 before any database
\* statement, and no tenant context is built from a default restaurant id.
C8_FailsClosed ==
  \A r \in Requests :
    ( /\ req[r].pc # "idle" /\ GroupOf(r) # "api"
      /\ ValidateToken(req[r].header) /\ LacksClaim(req[r].token) )
    => /\ ~req[r].ctx.exists
       /\ req[r].issued = {} /\ ~Queried(r) /\ ~req[r].reached
       /\ req[r].pc = "done" => req[r].status \in {401, 403}

GatedGroups == {"restaurants", "platform"}

\* The request is one the authorization rules refuse: no usable token, or a
\* role the route does not permit.
Unauthorized(r) ==
  /\ req[r].pc # "idle" /\ GroupOf(r) # "api"
  /\ \/ ~ValidateToken(req[r].header)
     \/ GroupOf(r) \in GatedGroups /\ ParseWithClaims(req[r].token).role \notin PlatformRoles

C10_PlatformRoutesGated ==
  \A r \in Requests :
    (req[r].pc # "idle" /\ GroupOf(r) \in GatedGroups /\ (req[r].reached \/ req[r].pc = "handler")) =>
      /\ ValidateToken(req[r].header)
      /\ req[r].token.role \in PlatformRoles

\* A request with a role other than KAM and Admin finished on a gated route
\* refused by the role check, without reaching the handler.
C10_Witness ==
  \E r \in Requests :
    /\ req[r].pc = "done" /\ GroupOf(r) \in GatedGroups
    /\ ValidateToken(req[r].header)
    /\ req[r].token.role \notin PlatformRoles
    /\ req[r].aborted_by = "RequireRole" /\ ~req[r].reached

\* The step serves a call of the named operation.
Serves(op) == proc.call = NoCall /\ proc'.call.op = op

\* The restaurants row with the given id, before and after the step.
RowBefore(rid) == {x \in db.restaurants : x.id = rid}
RowAfter(rid) == {x \in db'.restaurants : x.id = rid}

\* The users rows the step adds.
NewUsers == db'.users \ db.users

CallerIsKAM(id) == \E u \in db.users : u.id = id /\ u.role = "KAM"

\* C11: of two activations of a tenant in sequence, the first (a KAM
\* activating a pending tenant, no statement failing) answers 200, makes the
\* tenant active and provisions an Admin user for it; the second (the
\* tenant is active) answers 409 and writes nothing.
C11_ActivateTwice ==
  [][ Serves("ActivateRestaurant") =>
        \A x \in RowBefore(proc'.call.rid) :
          /\ (x.status = "pending" /\ CallerIsKAM(proc'.call.by) /\ ~proc'.call.fault) =>
               /\ proc'.call.code = 200
               /\ \A y \in RowAfter(x.id) : y.status = "active"
               /\ \E u \in NewUsers : u.restaurant_id = x.id /\ u.role = "Admin"
          /\ x.status = "active" =>
               (proc'.call.code = 409 /\ db' = db /\ proc'.call.wrote = {}) ]_vars

\* C12: when KAM K activates a registered, pending tenant A (no statement
\* failing), A is active afterwards, the call created exactly one user, an
\* Admin of A whose e-mail is A's contact e-mail, and activated_by is K or
\* the KAM A had before.
C12_ActivationOutcome ==
  [][ Serves("ActivateRestaurant") =>
        \A x \in RowBefore(proc'.call.rid) :
          (x.status = "pending" /\ CallerIsKAM(proc'.call.by) /\ ~proc'.call.fault) =>
            /\ \A y \in RowAfter(x.id) :
                 y.status = "active" /\ y.activated_by \in ({proc'.call.by, x.kam_id} \ {0})
            /\ Cardinality(NewUsers) = 1
            /\ \A u \in NewUsers :
                 u.restaurant_id = x.id /\ u.role = "Admin" /\ u.email = x.contact_email ]_vars

\* A restaurant's status becomes active in this step.
BecomesActive(rid) ==
  /\ \E y \in RowAfter(rid) : y.status = "active"
  /\ \A x \in RowBefore(rid) : x.status # "active"

\* C13 as stated: a registered tenant starts pending and becomes active only
\* by an activation, which provisions an Admin user for it in the same call.
C13_ActiveOnlyByActivation ==
  [][ \A rid \in Tenants :
        /\ (RowBefore(rid) = {} /\ RowAfter(rid) # {}) =>
             \A y \in RowAfter(rid) : y.status = "pending"
        /\ BecomesActive(rid) =>
             /\ proc'.call.op = "ActivateRestaurant" /\ proc'.call.rid = rid
             /\ \E u \in NewUsers : u.restaurant_id = rid /\ u.role = "Admin" ]_vars

\* C13: a registered tenant starts pending. It becomes active either by an
\* activation answered 200, called by a KAM, which provisions an Admin user
\* for it in the same call, or by a status update answered 200, open to the
\* callers the KAM/Admin gate lets through, which provisions no user.
C13_ActiveByActivationOrStatusUpdate ==
  [][ \A rid \in Tenants :
        /\ (RowBefore(rid) = {} /\ RowAfter(rid) # {}) =>
             /\ proc'.call.op = "RegisterRestaurant"
             /\ \A y \in RowAfter(rid) : y.status = "pending"
        /\ BecomesActive(rid) =>
             /\ proc'.call.rid = rid /\ proc'.call.code = 200
             /\ \/ /\ proc'.call.op = "ActivateRestaurant"
                   /\ CallerIsKAM(proc'.call.by)
                   /\ \E u \in NewUsers : u.restaurant_id = rid /\ u.role = "Admin"
                \/ /\ proc'.call.op = "UpdateRestaurantStatus"
                   /\ \E u \in db.users : u.id = proc'.call.by /\ u.role \in PlatformRoles
                   /\ NewUsers = {} ]_vars

\* A status update has made a pending tenant active and no Admin user of
\* the tenant exists.
C13_Witness ==
  /\ proc.call.op = "UpdateRestaurantStatus" /\ proc.call.code = 200
  /\ \E x \in db.restaurants :
       /\ x.id = proc.call.rid /\ x.status = "active" /\ x.activated_by = 0
       /\ ~\E u \in db.users : u.restaurant_id = x.id

\* C14: an activation whose welcome e-mail failed answers 200, and the
\* tenant is active and its Admin user provisioned.
C14_MailFailureKeepsActivation ==
  (proc.call.op = "ActivateRestaurant" /\ proc.call.mail = "failed") =>
    /\ proc.call.code = 200
    /\ proc.call.wrote = {"users", "restaurants"}
    /\ \E x \in db.restaurants :
         /\ x.id = proc.call.rid /\ x.status = "active" /\ x.activated_by = proc.call.by
         /\ \E u \in db.users :
              u.restaurant_id = x.id /\ u.role = "Admin" /\ u.email = x.contact_email

\* An activation was served whose welcome e-mail failed.
C14_Witness ==
  /\ proc.call.op = "ActivateRestaurant" /\ proc.call.mail = "failed"
  /\ proc.call.rid \in Tenants

\* The step runs the bootstrap procedure: main with -bootstrap on a database
\* that has the tables, or migration 8 in main with -migrate.
BootstrapRan ==
  /\ proc.pc = "running" /\ proc' # proc
  /\ \/ proc.mode = "bootstrap" /\ proc.applied >= UsersVersion
     \/ proc.mode = "migrate" /\ proc.applied + 1 = BootstrapVersion

\* The bootstrap procedure of the step returned no error.
BootstrapSucceeded ==
  \/ proc.mode = "bootstrap" /\ proc'.call.code = 0
  \/ proc.mode = "migrate" /\ proc'.applied = BootstrapVersion

SentinelRows(d) == {x \in d.restaurants : x.id = PlatformOrganizationID}
PlatformKAMs(d) == {u \in d.users : u.restaurant_id = PlatformOrganizationID /\ u.role = "KAM"}

C16_ProductionNeedsPassword ==
  [][ ( /\ BootstrapRan
        /\ proc.environment = "production" /\ ~proc.password_set
        /\ ~\E u \in db.users : u.restaurant_id = PlatformOrganizationID /\ u.role \in PlatformRoles )
      => /\ ~BootstrapSucceeded
         /\ proc'.pc = "exited" /\ proc'.call.code = 1
         /\ db'.users = db.users ]_vars

\* A bootstrap run in production without a password has ended with status 1
\* after inserting the sentinel row, no statement failing, and there is no
\* user.
C16_Witness ==
  /\ proc.pc = "exited" /\ proc.call.op \in {"bootstrap", "migrate"} /\ proc.call.code = 1
  /\ ~proc.call.fault
  /\ proc.environment = "production" /\ ~proc.password_set
  /\ proc.applied + 1 >= BootstrapVersion
  /\ SentinelRows(db) # {} /\ db.users = {}

\* C17: a process serves HTTP only on a schema whose migrations are all
\* applied.
C17_NeverServesPartiallyMigrated ==
  proc.pc = "serving" => proc.applied = BootstrapVersion

\* C18 as stated: once the sentinel row exists it exists in every later state.
C18_SentinelNeverRemoved ==
  [][ SentinelRows(db) # {} => SentinelRows(db') # {} ]_vars

\* C18: the sentinel row, once created, stays until main with -migrate-down
\* rolls back the bootstrap migration or the migration that created the
\* restaurants table; no request handler removes it. A rollback of the
\* bootstrap migration that goes through removes the sentinel row and the
\* users of the platform.
C18_SentinelRemovedOnlyByRollback ==
  [][ /\ (SentinelRows(db) # {} /\ SentinelRows(db') = {}) =>
           /\ proc.pc = "running" /\ proc.mode = "migrate-down"
           /\ proc.applied \in {BootstrapVersion, RestaurantsVersion}
      /\ ( /\ proc.pc = "running" /\ proc.mode = "migrate-down"
           /\ proc.applied = BootstrapVersion /\ proc'.applied < BootstrapVersion ) =>
           /\ SentinelRows(db') = {}
           /\ ~\E u \in db'.users : u.restaurant_id = PlatformOrganizationID ]_vars

\* A rollback of the bootstrap migration has removed the sentinel row and
\* the platform's users while a registered tenant remains.
C18_Witness ==
  /\ proc.pc = "exited" /\ proc.call.op = "migrate-down" /\ proc.call.code = 0
  /\ proc.applied + 1 = BootstrapVersion
  /\ SentinelRows(db) = {} /\ db.users = {}
  /\ \E x \in db.restaurants : x.id \in Tenants

C20_ConflictsAnswered409 ==
  proc.call.err \in {ErrUserExists, ErrKAMExists, "restaurant is already active",
                     ErrTableUnavailable}
    => proc.call.code = 409

\* C21: a public unauthenticated menu request for restaurant R returns R's menu
\* items whatever authenticated requests of other tenants ran before on the
\* pooled connection that serves it: a finished listing for R carries the
\* rows of R that the table holds.
C21_PublicMenuIgnoresResidue ==
  \A r \in Requests :
    (req[r].pc = "done" /\ Route(req[r].route).handler = "ListMenuItemsPublic")
    => /\ req[r].status = 200
       /\ req[r].body =
            RestaurantIDsOf({row \in menu_items : row.restaurant_id = req[r].restaurant_param})

\* Two reservations take the same table of the same restaurant at the same
\* time: neither is cancelled and their time ranges overlap.
Clash(a, b) ==
  /\ a.id # b.id
  /\ a.restaurant_id = b.restaurant_id /\ a.table_number = b.table_number
  /\ a.status # "cancelled" /\ b.status # "cancelled"
  /\ a.start_time < b.end_time /\ b.start_time < a.end_time

\* C22: in every reachable state, under concurrent CreateReservation calls and
\* after reservation status updates, no two non-cancelled reservations for the
\* same restaurant and table have overlapping time ranges.
C22_NoDoubleBooking ==
  \A a \in db.reservations, b \in db.reservations : ~Clash(a, b)

\* The Admin users of tenant rid, and the goroutines that answered an
\* activation of rid with success.
AdminsOf(rid) == {u \in db.users : u.restaurant_id = rid /\ u.role = "Admin"}
Activated(rid) ==
  {w \in Workers : req[w].pc = "done" /\ req[w].op = "ActivateRestaurant"
                   /\ req[w].rid = rid /\ req[w].code = 200}

\* C23: for any interleaving of two concurrent activation requests for the
\* same pending tenant, exactly one Admin user is provisioned for that tenant
\* and at most one of the two requests reports success.
C23_OneAdminOneSuccess ==
  \A rid \in Tenants :
    /\ Cardinality(AdminsOf(rid)) <= 1
    /\ Cardinality(Activated(rid)) <= 1
    /\ (Activated(rid) # {} => Cardinality(AdminsOf(rid)) = 1)

\* C24: activation is all-or-nothing: when ActivateRestaurant returns an error
\* (the call is answered with another status than 200), the tenant's row is
\* unchanged and the call created no user for it.
C24_ActivationAllOrNothing ==
  [][ (Serves("ActivateRestaurant") /\ proc'.call.code # 200) =>
        /\ RowAfter(proc'.call.rid) = RowBefore(proc'.call.rid)
        /\ \A u \in NewUsers : u.restaurant_id # proc'.call.rid ]_vars

\* The users under the platform sentinel tenant.
SentinelUsers(d) == {u \in d.users : u.restaurant_id = PlatformOrganizationID}

\* C25: no unauthenticated request creates a user under the platform sentinel
\* tenant: a public /auth/register call leaves the set of users whose
\* restaurant_id is the sentinel id unchanged.
C25_RegisterKeepsSentinelUsers ==
  [][ Serves("Register") => SentinelUsers(db') = SentinelUsers(db) ]_vars

\* The user who makes the call the step serves.
CallerOf(call) == {u \in db.users : u.id = call.by}

\* C26: only platform staff (users under the sentinel tenant) change a
\* tenant's status or KAM assignment: a status update or KAM assignment
\* called by a user of another tenant leaves every restaurants row unchanged.
C26_OnlyPlatformStaffChangeTenants ==
  [][ ((Serves("UpdateRestaurantStatus") \/ Serves("AssignKAM"))
        /\ \E u \in CallerOf(proc'.call) : u.restaurant_id # PlatformOrganizationID)
      => db'.restaurants = db.restaurants ]_vars

\* Reservation x is not cancelled, is for the restaurant and table of call c
\* and overlaps the range c asks for as half-open intervals.
HalfOpenOverlap(x, c) ==
  /\ x.restaurant_id = c.rid /\ x.table_number = c.table_number
  /\ x.status # "cancelled"
  /\ x.start_time < c.end_time /\ x.end_time > c.start_time

\* The step takes goroutine w through the availability check of a
\* CreateReservation whose range passes the validation.
ChecksAvailability(w) ==
  /\ req[w].pc = "idle" /\ req'[w].op = "CreateReservation"
  /\ req'[w].end_time >= req'[w].start_time

\* C27: CreateReservation reports the table unavailable exactly when some
\* non-cancelled reservation for the same restaurant and table overlaps the
\* requested range as half-open intervals; a request that only touches an
\* existing reservation at an endpoint is accepted.
C27_UnavailableIffHalfOpenOverlap ==
  [][ \A w \in Workers :
        ChecksAvailability(w) =>
          ((req'[w].pc = "done" /\ req'[w].code = 409)
             <=> \E x \in db.reservations : HalfOpenOverlap(x, req'[w])) ]_vars

UserOps == {"GetUser", "UpdateUser", "DeleteUser", "ToggleUserStatus"}

\* The users row a call is about, when it belongs to another tenant than the
\* restaurant id the call carries.
ForeignTarget(call) == {u \in db.users : u.id = call.id /\ u.restaurant_id # call.rid}

\* C28: GetUser, UpdateUser, DeleteUser and ToggleUserStatus called with
\* restaurant id X on a user that belongs to a different tenant return the
\* user-not-found error (answered 404) and leave that user unchanged; the
\* call reaches the service and its lookup statement does not fail.
C28_ForeignUserNotFound ==
  [][ \A op \in UserOps :
        (Serves(op) /\ ~proc'.call.fault /\ proc'.call.err # "binding") =>
          \A u \in ForeignTarget(proc'.call) :
            /\ proc'.call.err = ErrUserNotFound /\ proc'.call.code = 404
            /\ u \in db'.users ]_vars

\* A DeleteUser aimed at a user of another tenant, whom the session of the
\* lookup can see, has been answered.
C28_Witness ==
  /\ proc.call.op = "DeleteUser" /\ proc.call.err = ErrUserNotFound
  /\ ForeignTarget(proc.call) # {}

\* The versions of the first k migrations of the version-ordered list.
Prefix(k) == {migrations[j] : j \in 1..k}

\* C29: after any sequence of migration Up and Down runs, runs in which a
\* migration fails included, the versions recorded in schema_migrations form
\* a prefix of the version-ordered migration list: the migration an Up run
\* failed at is not recorded, and no higher-versioned migration is either.
C29_RecordedVersionsArePrefix ==
  /\ \E k \in 0..Len(migrations) : db.schema_migrations = Prefix(k)
  /\ proc.failed # 0 => \A v \in db.schema_migrations : v < proc.failed

\* An Up run has failed at a migration in the middle of the list, after
\* earlier migrations were recorded.
C29_Witness ==
  /\ proc.pc = "idle" /\ proc.failed > 1
  /\ db.schema_migrations = Prefix(proc.failed - 1)

====
